---- MODULE Spec2Model ----
(***************************************************************************)
(* A model of jimdn/restful: the schema compiler (BuildFieldSet), the      *)
(* value coercers (ParseKindValue), the validator (FieldSet.CheckObject),  *)
(* the seq protocol of the POST / PUT / PATCH / DELETE handlers against a  *)
(* document store, and Processor.Init.                                     *)
(*                                                                         *)
(* Go strings are sequences of one-character strings, so that Join, Index, *)
(* LastIndex, ParseInt and FormatInt are computed as the code computes     *)
(* them.  A dynamic value (interface{}) is a record tagged with its Go     *)
(* type; a float64 is held in tenths (39 is 3.9).                          *)
(***************************************************************************)
EXTENDS Integers, Sequences, FiniteSets, TLC

\* ---------------------------------------------------------------- bounds
MaxSeq == 3      \* a handler does not push a stored seq beyond this value
MaxTime == 2     \* the clock stops here
MaxPut == 1      \* PUT requests that may be between their Find and Upsert
MaxTries == 2    \* versioned PATCHes counted per (epoch, presented seq)
MaxElems == 1    \* length of the arrays of objects in validator inputs

\* --------------------------------------------------------------- strings
s_id == <<"i", "d">>
s__id == <<"_", "i", "d">>
s_seq == <<"s", "e", "q">>
s_btime == <<"b", "t", "i", "m", "e">>
s_mtime == <<"m", "t", "i", "m", "e">>
s_name == <<"n", "a", "m", "e">>
s_year == <<"y", "e", "a", "r">>
s_co == <<"c", "o">>
s_ro == <<"r", "o">>
s_info == <<"i", "n", "f", "o">>
s_city == <<"c", "i", "t", "y">>
s_cmts == <<"c", "m", "t", "s">>
s_score == <<"s", "c", "o", "r", "e">>
s_ext == <<"e", "x", "t">>
s_bogus == <<"b", "o", "g", "u", "s">>
s_k == <<"k">>
s_a == <<"a">>
s_b == <<"b">>
s_x == <<"x">>
s_d1 == <<"d", "1">>
s_g1 == <<"g", "1">>
s_empty == <<>>

\* strings.Index(s, c) for a one-character c
Index(s, c) ==
    IF \E i \in 1..Len(s) : s[i] = c
    THEN (CHOOSE i \in 1..Len(s) : s[i] = c /\ \A j \in 1..(i - 1) : s[j] # c) - 1
    ELSE -1

\* strings.LastIndex(s, c) for a one-character c
LastIndex(s, c) ==
    IF \E i \in 1..Len(s) : s[i] = c
    THEN (CHOOSE i \in 1..Len(s) : s[i] = c /\ \A j \in (i + 1)..Len(s) : s[j] # c) - 1
    ELSE -1

\* strings.HasPrefix
HasPrefix(s, p) == Len(s) >= Len(p) /\ SubSeq(s, 1, Len(p)) = p

RECURSIVE Join(_)
\* strings.Join(parts, ".")
Join(parts) ==
    IF parts = <<>> THEN <<>>
    ELSE IF Len(parts) = 1 THEN parts[1]
    ELSE parts[1] \o <<".">> \o Join(Tail(parts))

RECURSIVE Split(_)
\* strings.Split(s, "."): the segments of a dotted path, as the store reads a $set key
Split(s) ==
    LET pos == Index(s, ".")
    IN IF pos = -1 THEN <<s>>
       ELSE <<SubSeq(s, 1, pos)>> \o Split(SubSeq(s, pos + 2, Len(s)))

\* ------------------------------------------------------------------- seq
Digits == <<"0", "1", "2", "3", "4", "5", "6", "7", "8", "9">>
IsDigit(c) == \E i \in 1..10 : Digits[i] = c
DigitVal(c) == (CHOOSE i \in 1..10 : Digits[i] = c) - 1

RECURSIVE ParseDigits(_, _)
ParseDigits(s, acc) ==
    IF s = <<>> THEN acc ELSE ParseDigits(Tail(s), acc * 10 + DigitVal(Head(s)))

\* strconv.ParseInt(s, 10, 64): an optional sign and then decimal digits only.
\* The strings of the model have few digits, so the range error is not reached.
ParseInt(s) ==
    LET signed == s # <<>> /\ Head(s) \in {"+", "-"}
        body == IF signed THEN Tail(s) ELSE s
    IN IF body = <<>> \/ \E i \in 1..Len(body) : ~IsDigit(body[i])
       THEN [err |-> TRUE, n |-> 0]
       ELSE [err |-> FALSE,
             n |-> IF signed /\ Head(s) = "-" THEN 0 - ParseDigits(body, 0)
                   ELSE ParseDigits(body, 0)]

RECURSIVE FormatNat(_)
FormatNat(n) ==
    IF n < 10 THEN <<Digits[n + 1]>>
    ELSE FormatNat(n \div 10) \o <<Digits[(n % 10) + 1]>>

\* strconv.FormatInt(n, 10)
FormatInt(n) == IF n < 0 THEN <<"-">> \o FormatNat(0 - n) ELSE FormatNat(n)

genSeq(n) == FormatInt(IF n = 0 THEN n + 1 ELSE n)

\* nextSeq as it would be if it handed the parsed seq back without the n++
nextSeqStuck(seq) ==
    LET p == ParseInt(seq)
    IN IF p.err THEN [err |-> TRUE, seq |-> <<>>]
       ELSE [err |-> FALSE, seq |-> genSeq(p.n)]

nextSeq(seq) ==
    LET p == ParseInt(seq)
    IN IF p.err THEN [err |-> TRUE, seq |-> <<>>]
       ELSE [err |-> FALSE, seq |-> genSeq(p.n + 1)]

\* ---------------------------------------------------------------- values
Nil == [t |-> "nil"]
Bool(b) == [t |-> "bool", v |-> b]
Float(n) == [t |-> "float64", v |-> n]
Int64(n) == [t |-> "int64", v |-> n]
Uint64(n) == [t |-> "uint64", v |-> n]
Str(s) == [t |-> "string", v |-> s]
Arr(a) == [t |-> "array", v |-> a]
Obj(m) == [t |-> "object", v |-> m]

Put(f, k, v) == [x \in (DOMAIN f) \cup {k} |-> IF x = k THEN v ELSE f[x]]
Delete(f, k) == [x \in (DOMAIN f) \ {k} |-> f[x]]
Has(f, k) == k \in DOMAIN f

\* int64(v) of a float64 v: the fraction is discarded
Trunc(n) == IF n >= 0 THEN n \div 10 ELSE 0 - ((0 - n) \div 10)

GetStringD(s, d) == IF s.t = "string" THEN s.v ELSE d
GetString(s) == GetStringD(s, <<>>)

CheckBool(value) == IF value.t = "bool" THEN value ELSE Nil

\* a CheckInt that rounds a float64 to the nearest integer
CheckIntRounding(value) ==
    CASE value.t = "int64" -> value
      [] value.t = "uint64" -> Int64(value.v)
      [] value.t = "float64" ->
            Int64(IF value.v >= 0 THEN (value.v + 5) \div 10 ELSE 0 - ((5 - value.v) \div 10))
      [] OTHER -> Nil

CheckInt(value) ==
    CASE value.t = "int64" -> value
      [] value.t = "uint64" -> Int64(value.v)
      [] value.t = "float64" -> Int64(Trunc(value.v))
      [] OTHER -> Nil

\* the inputs of the model are not negative, where uint64(v) is the same number
CheckUint(value) ==
    CASE value.t = "int64" -> Uint64(value.v)
      [] value.t = "uint64" -> value
      [] value.t = "float64" -> Uint64(Trunc(value.v))
      [] OTHER -> Nil

CheckFloat(value) ==
    CASE value.t = "int64" -> Float(value.v * 10)
      [] value.t = "uint64" -> Float(value.v * 10)
      [] value.t = "float64" -> value
      [] OTHER -> Nil

CheckString(value) == IF value.t = "string" THEN value ELSE Nil

CheckObjectValue(value) == IF value.t = "object" THEN value ELSE Nil

\* ----------------------------------------------------------------- kinds
reflect_Invalid == 0
reflect_Bool == 1
reflect_Int == 2
reflect_Int32 == 5
reflect_Int64 == 6
reflect_Uint == 7
reflect_Uint64 == 11
reflect_Float32 == 13
reflect_Float64 == 14
reflect_Array == 17
reflect_Chan == 18
reflect_Map == 21
reflect_Ptr == 22
reflect_Slice == 23
reflect_String == 24
reflect_Struct == 25

KindInvalid == reflect_Invalid
KindBool == reflect_Bool
KindInt == reflect_Int64
KindUint == reflect_Uint64
KindFloat == reflect_Float64
KindString == reflect_String
KindObject == reflect_Struct
KindArrayBase == 1000
KindArrayBool == KindArrayBase + KindBool
KindArrayInt == KindArrayBase + KindInt
KindArrayUint == KindArrayBase + KindUint
KindArrayFloat == KindArrayBase + KindFloat
KindArrayString == KindArrayBase + KindString
KindArrayObject == KindArrayBase + KindObject
KindArrayEnd == 1999
KindMapBase == 2000
KindMapBool == KindMapBase + KindBool
KindMapInt == KindMapBase + KindInt
KindMapUint == KindMapBase + KindUint
KindMapFloat == KindMapBase + KindFloat
KindMapString == KindMapBase + KindString
KindMapObject == KindMapBase + KindObject
KindMapEnd == 2999

RECURSIVE ParseKindValue(_, _)
RECURSIVE ParseKindArray(_, _)
RECURSIVE ParseKindMap(_, _)

ParseKindValue(value, kind) ==
    CASE kind = KindBool -> CheckBool(value)
      [] kind = KindInt -> CheckInt(value)
      [] kind = KindUint -> CheckUint(value)
      [] kind = KindFloat -> CheckFloat(value)
      [] kind = KindString -> CheckString(value)
      [] kind = KindObject -> CheckObjectValue(value)
      [] kind \in {KindArrayBool, KindArrayInt, KindArrayUint, KindArrayFloat,
                   KindArrayString, KindArrayObject} ->
            IF value.t = "array" THEN ParseKindArray(value.v, kind) ELSE Nil
      [] kind \in {KindMapBool, KindMapInt, KindMapUint, KindMapFloat,
                   KindMapString, KindMapObject} ->
            IF value.t = "object" THEN ParseKindMap(value.v, kind) ELSE Nil
      [] OTHER -> Nil

\* the first case of the switch is KindBool, not KindArrayBool: an array for a
\* []bool field matches no case and the empty r is returned
ParseKindArray(value, kind) ==
    IF kind \in {KindBool, KindArrayInt, KindArrayUint, KindArrayFloat,
                 KindArrayString, KindArrayObject}
    THEN LET r == [i \in 1..Len(value) |-> ParseKindValue(value[i], kind - KindArrayBase)]
         IN IF \E i \in 1..Len(value) : r[i] = Nil THEN Nil ELSE Arr(r)
    ELSE Arr(<<>>)

ParseKindMap(value, kind) ==
    IF \E k \in DOMAIN value : ParseKindValue(value[k], kind - KindMapBase) = Nil
    THEN Nil
    ELSE Obj(value)

\* -------------------------------------------------------- schema compiler
\* a reflect.Type: [Kind], with Elem for Ptr / Slice / Array / Map and Fields
\* (a sequence of [Tag, Type], Tag being the json struct tag) for Struct
TypeOf(kind) == [Kind |-> kind]
PtrTo(e) == [Kind |-> reflect_Ptr, Elem |-> e]
SliceOf(e) == [Kind |-> reflect_Slice, Elem |-> e]
MapOf(e) == [Kind |-> reflect_Map, Elem |-> e]
StructOf(fields) == [Kind |-> reflect_Struct, Fields |-> fields]
StructField(tag, typ) == [Tag |-> tag, Type |-> typ]

Field(kind) == [Kind |-> kind, CreateOnly |-> FALSE, ReadOnly |-> FALSE]

RECURSIVE parseKind(_)
parseKind(typ) ==
    LET t == IF typ.Kind = reflect_Ptr THEN typ.Elem ELSE typ
        kind == t.Kind
    IN IF kind = reflect_Array \/ kind = reflect_Slice
       THEN LET elemKind == parseKind(t.Elem)
            IN IF elemKind < KindBool \/ elemKind > KindObject
               THEN KindInvalid ELSE KindArrayBase + elemKind
       ELSE IF kind = reflect_Map
       THEN LET elemKind == parseKind(t.Elem)
            IN IF elemKind < KindBool \/ elemKind > KindObject
               THEN KindInvalid ELSE KindMapBase + elemKind
       ELSE IF kind = reflect_Bool THEN KindBool
       ELSE IF kind >= reflect_Int /\ kind <= reflect_Int64 THEN KindInt
       ELSE IF kind >= reflect_Uint /\ kind <= reflect_Uint64 THEN KindUint
       ELSE IF kind = reflect_Float32 \/ kind = reflect_Float64 THEN KindFloat
       ELSE IF kind = reflect_String THEN KindString
       ELSE IF kind = reflect_Struct THEN KindObject
       ELSE KindInvalid

RECURSIVE StripPtr(_)
\* for t.Kind() == reflect.Ptr { t = t.Elem() }
StripPtr(t) == IF t.Kind = reflect_Ptr THEN StripPtr(t.Elem) ELSE t

\* strings.Split(f.Tag.Get("json"), ",")[0]
TagName(tag) ==
    LET pos == Index(tag, ",") IN IF pos = -1 THEN tag ELSE SubSeq(tag, 1, pos)

RECURSIVE build(_, _, _)
RECURSIVE buildFields(_, _, _, _)

build(typ, prefix, p) ==
    LET t == IF typ.Kind = reflect_Ptr THEN typ.Elem ELSE typ
        path == Join(prefix)
        kind == parseKind(t)
        p1 == IF path # <<>> /\ kind # KindInvalid
              THEN [FMap |-> Put(p.FMap, path, Field(kind)), FSli |-> Append(p.FSli, path)]
              ELSE p
    IN IF kind \in {KindObject, KindArrayObject, KindMapObject}
       THEN LET t1 == IF t.Kind \in {reflect_Array, reflect_Slice, reflect_Map}
                      THEN t.Elem ELSE t
                t2 == StripPtr(t1)
            IN IF t2.Kind # reflect_Struct THEN p1
               ELSE buildFields(t2.Fields, 1, prefix, p1)
       ELSE p1

\* the loop over t.Field(i) of build
buildFields(fields, i, prefix, p) ==
    IF i > Len(fields) THEN p
    ELSE buildFields(fields, i + 1, prefix,
                     build(fields[i].Type, Append(prefix, TagName(fields[i].Tag)), p))

BuildFieldSet(typ) ==
    build(typ, <<>>, [FMap |-> Put(<<>>, <<>>, Field(KindObject)), FSli |-> <<>>])

IsMapMember(fs, field) ==
    LET pos == LastIndex(field, ".")
    IN IF pos = -1 THEN [kind |-> KindInvalid, ok |-> FALSE]
       ELSE LET head == SubSeq(field, 1, pos)
            IN IF Has(fs.FMap, head) /\ fs.FMap[head].Kind > KindMapBase
                  /\ fs.FMap[head].Kind < KindMapEnd
               THEN [kind |-> fs.FMap[head].Kind, ok |-> TRUE]
               ELSE [kind |-> KindInvalid, ok |-> FALSE]

IsFieldMember(fs, field) ==
    IF ~Has(fs.FMap, field) THEN IsMapMember(fs, field)
    ELSE [kind |-> fs.FMap[field].Kind, ok |-> TRUE]

IsFieldCreateOnly(fs, field) == Has(fs.FMap, field) /\ fs.FMap[field].CreateOnly

IsFieldReadOnly(fs, field) == Has(fs.FMap, field) /\ fs.FMap[field].ReadOnly

\* RemoveDupArray: the distinct elements of a list, in no particular order
RemoveDupArray(s) == {s[i] : i \in 1..Len(s)}

SetCreateOnlyFields(fs, fields) ==
    [fs EXCEPT !.FMap = [k \in DOMAIN fs.FMap |->
        IF \E field \in RemoveDupArray(fields) : HasPrefix(k, field)
        THEN [fs.FMap[k] EXCEPT !.CreateOnly = TRUE] ELSE fs.FMap[k]]]

SetReadOnlyFields(fs, fields) ==
    [fs EXCEPT !.FMap = [k \in DOMAIN fs.FMap |->
        IF \E field \in RemoveDupArray(fields) : HasPrefix(k, field)
        THEN [fs.FMap[k] EXCEPT !.ReadOnly = TRUE] ELSE fs.FMap[k]]]

\* the error or "" ; the loop stops at the first bad field of an unordered set,
\* so with two bad fields either message may come out: only nil / not nil is kept
CheckSearchFields(fs, fields) ==
    IF \E field \in RemoveDupArray(fields) :
          \/ Len(field) <= 0
          \/ ~IsFieldMember(fs, field).ok
          \/ IsFieldMember(fs, field).kind \notin {KindString, KindArrayString}
    THEN "search field invalid" ELSE ""

CheckRegexSearchFields(fs, fields) ==
    IF \E field \in RemoveDupArray(fields) :
          \/ Len(field) <= 0
          \/ ~IsFieldMember(fs, field).ok
          \/ IsFieldMember(fs, field).kind # KindString
    THEN "regex search field invalid" ELSE ""

RECURSIVE CheckIndexFieldsFrom(_, _, _, _)
CheckIndexFieldsFrom(fs, fields, i, formatFields) ==
    IF i > Len(fields) THEN [err |-> "", fields |-> formatFields]
    ELSE LET field == fields[i]
         IN IF Len(field) <= 1 THEN [err |-> "index field invalid", fields |-> <<>>]
            ELSE LET r == field[1]
                     k == Tail(field)
                 IN IF r # "+" /\ r # "-"
                    THEN [err |-> "index field should start with +/-", fields |-> <<>>]
                    ELSE IF k = s_id
                    THEN [err |-> "index fields should not contains id field", fields |-> <<>>]
                    ELSE IF ~IsFieldMember(fs, k).ok
                    THEN [err |-> "index field unknown", fields |-> <<>>]
                    ELSE CheckIndexFieldsFrom(fs, fields, i + 1,
                            Append(formatFields, IF r = "+" THEN k ELSE field))

CheckIndexFields(fs, fields) ==
    IF Len(fields) = 0 THEN [err |-> "index fields empty", fields |-> <<>>]
    ELSE IF Len(fields) # Cardinality(RemoveDupArray(fields))
    THEN [err |-> "index fields dup", fields |-> <<>>]
    ELSE CheckIndexFieldsFrom(fs, fields, 1, <<>>)

\* Processor.Init as it would be without the test for 'seq'
ProcessorInitNoSeqTest(p) ==
    LET fs0 == BuildFieldSet(p.DataStruct)
        fs2 == SetReadOnlyFields(SetCreateOnlyFields(fs0, p.CreateOnlyFields), p.ReadOnlyFields)
        fail(msg, fs) == [err |-> msg, FieldSet |-> fs]
    IN IF p.Biz = <<>> THEN fail("biz is empty", [FMap |-> <<>>, FSli |-> <<>>])
       ELSE IF ~Has(fs0.FMap, s_id) THEN fail("struct must contain 'id' field", fs0)
       ELSE IF ~Has(fs0.FMap, s_btime) THEN fail("struct must contain 'btime' field", fs0)
       ELSE IF ~Has(fs0.FMap, s_mtime) THEN fail("struct must contain 'mtime' field", fs0)
       ELSE IF CheckSearchFields(fs0, p.SearchFields) # ""
       THEN fail(CheckSearchFields(fs0, p.SearchFields), fs0)
       ELSE IF CheckRegexSearchFields(fs0, p.RegexSearchFields) # ""
       THEN fail(CheckRegexSearchFields(fs0, p.RegexSearchFields), fs0)
       ELSE IF \E i \in 1..Len(p.Indexes) : CheckIndexFields(fs0, p.Indexes[i].Key).err # ""
       THEN fail("index check err", fs0)
       ELSE [err |-> "", FieldSet |-> fs2]

\* Processor.Init on a processor [Biz, DataStruct, SearchFields,
\* RegexSearchFields, CreateOnlyFields, ReadOnlyFields, Indexes]; Indexes is a
\* sequence of [Key, Unique].  The result is the error ("" for nil) and the
\* FieldSet the processor is left with.
ProcessorInit(p) ==
    LET fs0 == BuildFieldSet(p.DataStruct)
        idxErr == {i \in 1..Len(p.Indexes) : CheckIndexFields(fs0, p.Indexes[i].Key).err # ""}
        fs2 == SetReadOnlyFields(SetCreateOnlyFields(fs0, p.CreateOnlyFields), p.ReadOnlyFields)
        fail(msg, fs) == [err |-> msg, FieldSet |-> fs]
    IN IF p.Biz = <<>> THEN fail("biz is empty", [FMap |-> <<>>, FSli |-> <<>>])
       ELSE IF ~Has(fs0.FMap, s_id) THEN fail("struct must contain 'id' field", fs0)
       ELSE IF ~Has(fs0.FMap, s_btime) THEN fail("struct must contain 'btime' field", fs0)
       ELSE IF ~Has(fs0.FMap, s_mtime) THEN fail("struct must contain 'mtime' field", fs0)
       ELSE IF ~Has(fs0.FMap, s_seq) THEN fail("struct must contain 'seq' field", fs0)
       ELSE IF CheckSearchFields(fs0, p.SearchFields) # ""
       THEN fail(CheckSearchFields(fs0, p.SearchFields), fs0)
       ELSE IF CheckRegexSearchFields(fs0, p.RegexSearchFields) # ""
       THEN fail(CheckRegexSearchFields(fs0, p.RegexSearchFields), fs0)
       ELSE IF idxErr # {} THEN fail("index check err", fs0)
       ELSE [err |-> "", FieldSet |-> fs2]

\* ------------------------------------------------------------- validator
RECURSIVE SetToSeq(_)
SetToSeq(S) ==
    IF S = {} THEN <<>>
    ELSE LET x == CHOOSE y \in S : TRUE IN <<x>> \o SetToSeq(S \ {x})

Reverse(s) == [i \in 1..Len(s) |-> s[Len(s) + 1 - i]]

\* the order in which `range obj` yields the keys: Go leaves it open, the model
\* takes one enumeration or its reverse, so that any two keys come in both orders
KeyOrder(S, rev) == IF rev THEN Reverse(SetToSeq(S)) ELSE SetToSeq(S)

RECURSIVE check(_, _, _, _, _, _)
RECURSIVE checkKeys(_, _, _, _, _, _, _)
RECURSIVE checkElems(_, _, _, _, _, _, _)

\* the body of the loop of check for the entry k of obj.  obj is a Go map, which
\* the callee changes in place: the result carries the map as it is afterwards,
\* nested maps included (they are the same objects as v and its elements).
checkKey(fs, k, obj, prefix, dotOk, inv, rev) ==
    LET value == obj[k]
        path == Append(prefix, k)
        full == Join(path)
        \* invalidFields[name] = reason; delete(obj, key)
        reject(name, reason, key) ==
            [obj |-> Delete(obj, key), inv |-> Put(inv, name, reason)]
        keep == [obj |-> obj, inv |-> inv]
        mm == IsMapMember(fs, k)
        fm == IsFieldMember(fs, full)
        ordinary ==
            IF ~fm.ok THEN reject(full, "unknown", full)
            ELSE IF dotOk /\ IsFieldReadOnly(fs, full) THEN reject(full, "read only", full)
            ELSE IF dotOk /\ IsFieldCreateOnly(fs, full) THEN reject(full, "create only", full)
            ELSE IF ~dotOk /\ IsFieldReadOnly(fs, full) THEN reject(full, "read only", full)
            ELSE LET v == ParseKindValue(value, fm.kind)
                 IN IF v = Nil THEN reject(full, "type mismatch", full)
                    ELSE IF fm.kind = KindObject
                    THEN LET r == check(fs, v.v, path, dotOk, inv, rev)
                         IN [obj |-> Put(obj, k, Obj(r.obj)), inv |-> r.inv]
                    ELSE IF fm.kind = KindArrayObject
                    THEN LET r == checkElems(fs, v.v, 1, path, dotOk, inv, rev)
                         IN [obj |-> Put(obj, k, Arr(r.elems)), inv |-> r.inv]
                    ELSE keep
    IN IF Index(k, ".") >= 0
       THEN IF ~dotOk THEN reject(k, "dot not allow", k)
            ELSE IF Len(prefix) > 0 THEN reject(k, "dot invalid", k)
            ELSE IF mm.ok
            THEN IF ParseKindValue(value, mm.kind - KindMapBase) = Nil
                 THEN reject(k, "type mismatch", k)
                 ELSE IF IsFieldReadOnly(fs, k) THEN reject(k, "read only", k)
                 ELSE IF IsFieldCreateOnly(fs, k) THEN reject(k, "create only", k)
                 ELSE keep
            ELSE ordinary
       ELSE ordinary

RECURSIVE checkKeysFailFast(_, _, _, _, _, _, _)
\* checkKeys as it would be if the loop returned at the first violation
checkKeysFailFast(fs, keys, obj, prefix, dotOk, inv, rev) ==
    IF keys = <<>> \/ Cardinality(DOMAIN inv) # 0 THEN [obj |-> obj, inv |-> inv]
    ELSE IF ~Has(obj, Head(keys))
    THEN checkKeysFailFast(fs, Tail(keys), obj, prefix, dotOk, inv, rev)
    ELSE LET r == checkKey(fs, Head(keys), obj, prefix, dotOk, inv, rev)
         IN checkKeysFailFast(fs, Tail(keys), r.obj, prefix, dotOk, r.inv, rev)

\* for k, value := range obj: an entry deleted before it is reached is not produced
checkKeys(fs, keys, obj, prefix, dotOk, inv, rev) ==
    IF keys = <<>> THEN [obj |-> obj, inv |-> inv]
    ELSE IF ~Has(obj, Head(keys))
    THEN checkKeys(fs, Tail(keys), obj, prefix, dotOk, inv, rev)
    ELSE LET r == checkKey(fs, Head(keys), obj, prefix, dotOk, inv, rev)
         IN checkKeys(fs, Tail(keys), r.obj, prefix, dotOk, r.inv, rev)

\* for _, elem := range v.([]interface{}) { fs.check(elem, path, ...) }
checkElems(fs, elems, i, path, dotOk, inv, rev) ==
    IF i > Len(elems) THEN [elems |-> elems, inv |-> inv]
    ELSE LET r == check(fs, elems[i].v, path, dotOk, inv, rev)
         IN checkElems(fs, [elems EXCEPT ![i] = Obj(r.obj)], i + 1, path, dotOk, r.inv, rev)

check(fs, obj, prefix, dotOk, inv, rev) ==
    checkKeys(fs, KeyOrder(DOMAIN obj, rev), obj, prefix, dotOk, inv, rev)

\* FieldSet.CheckObject: the document as the call leaves it, the violations
\* (path |-> reason) and whether an error is returned
CheckObject(fs, obj, dotOk, rev) ==
    LET r == check(fs, obj, <<>>, dotOk, <<>>, rev)
    IN [obj |-> r.obj, invalidFields |-> r.inv, err |-> Cardinality(DOMAIN r.inv) # 0]

\* InReplace: id --> _id, in the map and in the maps of its $or
InReplace(value) ==
    LET rename(m) == IF Has(m, s_id) THEN Delete(Put(m, s__id, m[s_id]), s_id) ELSE m
        v1 == rename(value)
        or == <<"$", "o", "r">>
    IN IF Has(v1, or) /\ v1[or].t = "array"
       THEN LET sli == SelectSeq(v1[or].v, LAMBDA elem : elem.t = "object")
            IN Put(v1, or, Arr([i \in 1..Len(sli) |-> Obj(rename(sli[i].v))]))
       ELSE v1

\* OutReplace: _id --> id
OutReplace(value) ==
    IF Has(value, s__id) THEN Delete(Put(value, s_id, value[s__id]), s__id) ELSE value

RECURSIVE InSortFrom(_, _, _, _)
InSortFrom(fs, data, i, d) ==
    IF i > Len(fs.FSli) THEN d
    ELSE LET value == IF fs.FSli[i] = s_id THEN s__id ELSE fs.FSli[i]
         IN IF Index(value, ".") >= 0 \/ ~Has(data, value)
            THEN InSortFrom(fs, data, i + 1, d)
            ELSE InSortFrom(fs, data, i + 1, Append(d, [Name |-> value, Value |-> data[value]]))

\* InSort: the bson.D of the top-level schema fields present in data, in schema order
InSort(fs, data) == InSortFrom(fs, data, 1, <<>>)

\* ------------------------------------------------------------------ store
\* A collection is a function from _id to document.  Each primitive is one
\* atomic operation of the store.

RECURSIVE DocOfFrom(_, _, _)
DocOfFrom(d, i, m) ==
    IF i > Len(d) THEN m ELSE DocOfFrom(d, i + 1, Put(m, d[i].Name, d[i].Value))

\* the document a bson.D is stored as
DocOf(d) == DocOfFrom(d, 1, <<>>)

RECURSIVE SetPath(_, _, _)
\* $set of one dotted path: [ok, doc]; a path through a value that is not an
\* embedded document is refused
SetPath(doc, segs, v) ==
    IF Len(segs) = 1 THEN [ok |-> TRUE, doc |-> Put(doc, segs[1], v)]
    ELSE LET sub == IF Has(doc, segs[1]) THEN doc[segs[1]] ELSE Obj(<<>>)
         IN IF sub.t # "object" THEN [ok |-> FALSE, doc |-> doc]
            ELSE LET r == SetPath(sub.v, Tail(segs), v)
                 IN [ok |-> r.ok, doc |-> Put(doc, segs[1], Obj(r.doc))]

RECURSIVE SetAll(_, _, _)
SetAll(doc, keys, info) ==
    IF keys = <<>> THEN [ok |-> TRUE, doc |-> doc]
    ELSE LET r == SetPath(doc, Split(Head(keys)), info[Head(keys)])
         IN IF ~r.ok THEN [ok |-> FALSE, doc |-> doc]
            ELSE SetAll(r.doc, Tail(keys), info)

\* Collection.Update(selector, {$set: info}) on the document doc the selector
\* matched: the store refuses a change of _id and two paths of which one lies
\* beneath the other
MgoSet(doc, info) ==
    IF \/ Has(info, s__id) /\ info[s__id] # doc[s__id]
       \/ \E k1, k2 \in DOMAIN info : k1 # k2 /\ HasPrefix(k2, k1 \o <<".">>)
    THEN [ok |-> FALSE, doc |-> doc]
    ELSE SetAll(doc, SetToSeq(DOMAIN info), info)

\* ------------------------------------------------------------ the resource
Omit(tag) == tag \o <<",", "o", "m", "i", "t", "e", "m", "p", "t", "y">>

Info == StructOf(<<StructField(Omit(s_city), PtrTo(TypeOf(reflect_String)))>>)

Cmt == StructOf(<<StructField(Omit(s_score), PtrTo(TypeOf(reflect_Float64)))>>)

\* a data structure in the shape of the Movie of the example
Doc ==
    StructOf(<<StructField(Omit(s_id), PtrTo(TypeOf(reflect_String))),
               StructField(Omit(s_name), PtrTo(TypeOf(reflect_String))),
               StructField(Omit(s_year), PtrTo(TypeOf(reflect_Int32))),
               StructField(Omit(s_co), PtrTo(TypeOf(reflect_String))),
               StructField(Omit(s_ro), PtrTo(TypeOf(reflect_String))),
               StructField(Omit(s_info), PtrTo(Info)),
               StructField(Omit(s_cmts), SliceOf(PtrTo(Cmt))),
               StructField(Omit(s_ext), MapOf(TypeOf(reflect_String))),
               StructField(Omit(s_btime), PtrTo(TypeOf(reflect_Int64))),
               StructField(Omit(s_mtime), PtrTo(TypeOf(reflect_Int64))),
               StructField(Omit(s_seq), PtrTo(TypeOf(reflect_String)))>>)

TheProcessor ==
    [Biz |-> <<"d", "o", "c">>, DataStruct |-> PtrTo(Doc),
     SearchFields |-> <<s_name>>, RegexSearchFields |-> <<>>,
     CreateOnlyFields |-> <<s_co>>, ReadOnlyFields |-> <<s_ro>>,
     Indexes |-> <<>>]

\* p.FieldSet after Processor.Init
FS == ProcessorInit(TheProcessor).FieldSet

\* ----------------------------------------------------------- index queue
\* fmt.Sprintf("%s|%s", db, table)
getIndexMapKey(db, table) == db \o <<"|">> \o table

\* IndexEnsureList.Init
IndexEnsureListInit == [indexToEnsureMap |-> <<>>, indexToEnsureList |-> <<>>]

\* a Push that does not look the key up in the map
PushAlways(l, idx) ==
    LET k == getIndexMapKey(idx.DB, idx.Table)
    IN [indexToEnsureMap |-> Put(l.indexToEnsureMap, k, idx),
        indexToEnsureList |-> Append(l.indexToEnsureList, k)]

\* IndexEnsureList.Push, under the lock of the list; idx is not nil
Push(l, idx) ==
    LET k == getIndexMapKey(idx.DB, idx.Table)
    IN IF Has(l.indexToEnsureMap, k) THEN l
       ELSE [indexToEnsureMap |-> Put(l.indexToEnsureMap, k, idx),
             indexToEnsureList |-> Append(l.indexToEnsureList, k)]

\* IndexEnsureList.Pop, under the lock of the list: the list after it and the
\* element it returns
Pop(l) ==
    IF l.indexToEnsureList = <<>> THEN [l |-> l, idx |-> Nil]
    ELSE LET k == Head(l.indexToEnsureList)
         IN IF ~Has(l.indexToEnsureMap, k)
            THEN [l |-> [l EXCEPT !.indexToEnsureList = Tail(@)], idx |-> Nil]
            ELSE [l |-> [indexToEnsureMap |-> Delete(l.indexToEnsureMap, k),
                         indexToEnsureList |-> Tail(l.indexToEnsureList)],
                  idx |-> l.indexToEnsureMap[k]]

\* the seconds an ensured index stays in the cache
EnsuredFor == 600

\* IndexEnsuredMap.Set at the time now
Set(M, k, now) == Put(M, k, now + EnsuredFor)

\* an Exist for which the second of the expiry is still inside the window
ExistAtExpiry(M, k, now) == Has(M, k) /\ M[k] >= now

\* IndexEnsuredMap.Exist at the time now
Exist(M, k, now) == Has(M, k) /\ M[k] > now

\* the pending queue, the cache of ensured targets, the element the worker
\* holds between Pop and the calls on the store, the indexes of the store, and
\* for the record: the calls the last pass made on the store, the time each
\* target was last marked and the number of times the clock has moved; and
\* Indexes, the p.Indexes of the processor of the handlers
IndexStart ==
    [l |-> IndexEnsureListInit, M |-> <<>>, idx |-> Nil, db |-> <<>>,
     last |-> [k |-> <<>>, out |-> "none", calls |-> {}],
     marked |-> <<>>, ticks |-> 0, Indexes |-> TheProcessor.Indexes]

\* if p.Indexes != nil && len(p.Indexes) > 0 { getIndexEnsureList().Push(...) },
\* of a handler of the processor p with the database and table db and table
EnsureIndex(l, p, db, table) ==
    IF Len(p.Indexes) > 0
    THEN Push(l, [DB |-> db, Table |-> table, Processor |-> [Indexes |-> p.Indexes]])
    ELSE l

\* ---------------------------------------------------------- search index
MaxTasks == 2    \* OnWriteDone tasks that may be pending

\* gCfg.EsEnable, the OnWriteDone tasks started and not yet run, and the
\* entries of the search backend: the content by id; for the record, failed:
\* a call on the backend or the Find of a task has returned an error
EsStart == [EsEnable |-> FALSE, tasks |-> <<>>, docs |-> <<>>, failed |-> FALSE]

\* a handler that starts no task
GoOnWriteDoneNever(e, method, id, data) == e

\* go p.OnWriteDone(method, vars, query, data), with vars["id"] = id.  A task
\* started while gCfg.EsEnable is false does nothing and is left out.
GoOnWriteDone(e, method, id, data) ==
    IF e.EsEnable
    THEN [e EXCEPT !.tasks = Append(@, [method |-> method, id |-> id, data |-> data])]
    ELSE e

\* the strings BuildSearchContent collects for one field of fields
RECURSIVE searchStrings(_, _)
searchStrings(o, path) ==
    IF ~Has(o, Head(path)) THEN <<>>
    ELSE IF Len(path) > 1
    THEN IF o[Head(path)].t = "object" THEN searchStrings(o[Head(path)].v, Tail(path))
         ELSE <<>>
    ELSE IF o[Head(path)].t = "string" THEN <<o[Head(path)].v>>
    ELSE IF o[Head(path)].t = "array"
    THEN LET strs == SelectSeq(o[Head(path)].v, LAMBDA elem : CheckString(elem) # Nil)
         IN [i \in 1..Len(strs) |-> strs[i].v]
    ELSE <<>>

\* strings.Join(array, " ")
RECURSIVE JoinSpace(_)
JoinSpace(array) ==
    IF array = <<>> THEN <<>>
    ELSE IF Len(array) = 1 THEN array[1]
    ELSE array[1] \o <<" ">> \o JoinSpace(Tail(array))

RECURSIVE searchArray(_, _)
searchArray(obj, fields) ==
    IF fields = <<>> THEN <<>>
    ELSE searchStrings(obj, Split(IF Head(fields) = s_id THEN s__id ELSE Head(fields)))
            \o searchArray(obj, Tail(fields))

BuildSearchContent(obj, fields) == JoinSpace(searchArray(obj, fields))

\* esUpsert(db, table, id, content) and esRemove(db, table, id), in one table
esUpsert(docs, id, content) == Put(docs, id, content)

esRemove(docs, id) == Delete(docs, id)

VARIABLES store, clock, put, rsp, tally, call, ret, index, es

vars == <<store, clock, put, rsp, tally, call, ret, index, es>>

protocolVars == <<store, clock, put, rsp, tally>>

\* ------------------------------------------------- validator, on its own
s_ext_k == s_ext \o <<".">> \o s_k
s_a_b == s_a \o <<".">> \o s_b

RECURSIVE DocsOver(_, _)
\* the documents with some of the keys, each with one of its candidate values
DocsOver(keys, cand) ==
    IF keys = <<>> THEN {<<>>}
    ELSE LET rest == DocsOver(Tail(keys), cand)
         IN rest \cup {Put(d, Head(keys), v) : d \in rest, v \in cand[Head(keys)]}

RECURSIVE SeqsUpTo(_, _)
\* the sequences over S of length at most n
SeqsUpTo(S, n) ==
    IF n = 0 THEN {<<>>}
    ELSE LET shorter == SeqsUpTo(S, n - 1)
         IN shorter \cup {Append(q, x) : q \in shorter, x \in S}

CmtCand == Put(Put(<<>>, s_score, {Float(39), Str(s_x)}), s_bogus, {Float(10)})

CmtDocs == DocsOver(<<s_score, s_bogus>>, CmtCand)

InfoCand == Put(Put(<<>>, s_city, {Str(s_a), Float(50)}), s_bogus, {Float(10)})

InfoDocs == DocsOver(<<s_city, s_bogus>>, InfoCand) \cup {Put(<<>>, s_a_b, Str(s_x))}

TopCand ==
    [k \in {s_name, s_year, s_ro, s_co, s_bogus, s_info, s_cmts, s_ext_k} |->
        CASE k = s_name -> {Str(s_a)}
          [] k = s_year -> {Float(39), Str(s_x)}
          [] k = s_ro -> {Str(s_x)}
          [] k = s_co -> {Str(s_a)}
          [] k = s_bogus -> {Float(10)}
          [] k = s_info -> {Obj(d) : d \in InfoDocs} \cup {Str(s_x)}
          [] k = s_cmts -> {Arr(q) : q \in SeqsUpTo({Obj(d) : d \in CmtDocs}, MaxElems)}
                           \cup {Str(s_x)}
          [] k = s_ext_k -> {Str(s_a), Float(10)}]

\* the request bodies handed to CheckObject
CheckDocs ==
    DocsOver(<<s_name, s_year, s_ro, s_co, s_bogus, s_info, s_cmts, s_ext_k>>, TopCand)

NoCall == [fn |-> "none"]

IdleProtocol ==
    /\ store = <<>>
    /\ clock = 1
    /\ put = <<>>
    /\ rsp = [Code |-> 0, Msg |-> "", Data |-> Nil, Clean |-> FALSE, Req |-> Nil]
    /\ tally = <<>>
    /\ index = IndexStart
    /\ es = EsStart

InitCheck ==
    /\ IdleProtocol
    /\ \E obj \in CheckDocs, dotOk \in BOOLEAN, rev \in BOOLEAN :
          call = [fn |-> "CheckObject", obj |-> obj, dotOk |-> dotOk, rev |-> rev]
    /\ ret = NoCall

\* err := p.FieldSet.CheckObject(info, dotOk)
DoCheckObject ==
    /\ call.fn = "CheckObject"
    /\ ret = NoCall
    /\ ret' = [fn |-> "CheckObject"] @@ CheckObject(FS, call.obj, call.dotOk, call.rev)
    /\ UNCHANGED <<call, protocolVars, index, es>>

NextCheck == DoCheckObject

SpecCheck == InitCheck /\ [][NextCheck]_vars

\* what CheckObject is to find, entry by entry: the reason for which the entry
\* k of a (sub-)document under prefix is refused, "" when it is accepted
Verdict(fs, k, prefix, value, dotOk) ==
    LET full == Join(Append(prefix, k))
        dotted == \E i \in 1..Len(k) : k[i] = "."
    IN IF dotted /\ ~dotOk THEN "dot not allow"
       ELSE IF dotted /\ prefix # <<>> THEN "dot invalid"
       ELSE IF dotted /\ IsMapMember(fs, k).ok
       THEN IF ParseKindValue(value, IsMapMember(fs, k).kind - KindMapBase) = Nil
            THEN "type mismatch"
            ELSE IF IsFieldReadOnly(fs, k) THEN "read only"
            ELSE IF IsFieldCreateOnly(fs, k) THEN "create only"
            ELSE ""
       ELSE IF ~IsFieldMember(fs, full).ok THEN "unknown"
       ELSE IF IsFieldReadOnly(fs, full) THEN "read only"
       ELSE IF dotOk /\ IsFieldCreateOnly(fs, full) THEN "create only"
       ELSE IF ParseKindValue(value, IsFieldMember(fs, full).kind) = Nil THEN "type mismatch"
       ELSE ""

\* the name a violation of entry k is reported under
ReportedAs(k, prefix) ==
    IF \E i \in 1..Len(k) : k[i] = "." THEN k ELSE Join(Append(prefix, k))

RECURSIVE Violations(_, _, _, _)
\* all <<name, reason>> of the refused entries of obj, those of the accepted
\* Object and Array-of-Object entries included
Violations(fs, obj, prefix, dotOk) ==
    LET refused == {k \in DOMAIN obj : Verdict(fs, k, prefix, obj[k], dotOk) # ""}
        kindOf(k) == IsFieldMember(fs, Join(Append(prefix, k))).kind
        plain(k) == k \in (DOMAIN obj) \ refused /\ ~\E i \in 1..Len(k) : k[i] = "."
    IN {<<ReportedAs(k, prefix), Verdict(fs, k, prefix, obj[k], dotOk)>> : k \in refused}
       \cup UNION {Violations(fs, obj[k].v, Append(prefix, k), dotOk) :
                     k \in {x \in DOMAIN obj : plain(x) /\ kindOf(x) = KindObject}}
       \cup UNION {UNION {Violations(fs, obj[k].v[i].v, Append(prefix, k), dotOk) :
                             i \in 1..Len(obj[k].v)} :
                     k \in {x \in DOMAIN obj : plain(x) /\ kindOf(x) = KindArrayObject}}

CheckDone == ret.fn = "CheckObject"

\* C8: CheckObject is not fail-fast: the violations it reports are those of all
\* the refused entries of the document, at the top level and inside the Object
\* and Array-of-Object fields, each with its reason; it returns an error exactly
\* when it reports at least one; and a create-mode document of one unknown key,
\* one read-only key and one valid key gets exactly two
C8_NotFailFast ==
    CheckDone =>
        LET expected == Violations(FS, call.obj, <<>>, call.dotOk)
        IN /\ DOMAIN ret.invalidFields = {v[1] : v \in expected}
           /\ \A name \in DOMAIN ret.invalidFields : <<name, ret.invalidFields[name]>> \in expected
           /\ ret.err <=> (expected # {})
           /\ (~call.dotOk /\ DOMAIN call.obj = {s_bogus, s_ro, s_name})
                 => Cardinality(DOMAIN ret.invalidFields) = 2

C8_Witness ==
    /\ CheckDone
    /\ ~call.dotOk
    /\ DOMAIN call.obj = {s_bogus, s_ro, s_name}
    /\ ret.err
    /\ ret.invalidFields = Put(Put(<<>>, s_bogus, "unknown"), s_ro, "read only")

\* C9: every entry for which a violation is recorded is deleted from the
\* (sub-)document that holds it, at every depth: the document CheckObject leaves
\* behind has no refused entry any more
C9_ViolationsDeleted ==
    CheckDone => Violations(FS, ret.obj, <<>>, call.dotOk) = {}

\* C10: when CheckObject succeeds, every value of the document is held in its
\* coerced form (an Int field given 3.9 holds the integer 3)
C10_CoercedInPlace ==
    (CheckDone /\ ~ret.err) =>
        \A k \in DOMAIN ret.obj :
            Has(FS.FMap, k) => ret.obj[k] = ParseKindValue(call.obj[k], FS.FMap[k].Kind)

\* ---------------------------------------------------- Processor.Init, alone
Unsupported == SliceOf(SliceOf(TypeOf(reflect_String)))

\* how a required field is declared: as a member of a supported type, not at
\* all, as a member of a type the compiler drops, or only inside a nested object
Shapes == {"member", "none", "dropped", "nested"}

MemberType(f) == IF f \in {s_btime, s_mtime} THEN reflect_Int64 ELSE reflect_String

FieldsFor(f, shape) ==
    CASE shape = "member" -> <<StructField(Omit(f), PtrTo(TypeOf(MemberType(f))))>>
      [] shape = "none" -> <<>>
      [] shape = "dropped" -> <<StructField(Omit(f), Unsupported)>>
      [] shape = "nested" ->
            <<StructField(s_info, PtrTo(StructOf(<<StructField(f, TypeOf(MemberType(f)))>>)))>>

Processors ==
    {[Biz |-> biz,
      DataStruct |-> PtrTo(StructOf(FieldsFor(s_id, sh[1]) \o FieldsFor(s_btime, sh[2])
                                    \o FieldsFor(s_mtime, sh[3]) \o FieldsFor(s_seq, sh[4])
                                    \o extra)),
      SearchFields |-> search, RegexSearchFields |-> <<>>,
      CreateOnlyFields |-> <<s_co>>, ReadOnlyFields |-> <<>>, Indexes |-> <<>>] :
        biz \in {<<>>, <<"d", "o", "c">>},
        sh \in [1..4 -> Shapes],
        extra \in {<<>>, <<StructField(s_name, TypeOf(reflect_String))>>},
        search \in {<<>>, <<s_name>>}}

InitInit ==
    /\ IdleProtocol
    /\ \E p \in Processors : call = [fn |-> "Init", p |-> p]
    /\ ret = NoCall

\* err := p.Init()
DoInit ==
    /\ call.fn = "Init"
    /\ ret = NoCall
    /\ ret' = [fn |-> "Init"] @@ ProcessorInit(call.p)
    /\ UNCHANGED <<call, protocolVars, index, es>>

NextInit == DoInit

SpecInit == InitInit /\ [][NextInit]_vars

Required == {s_id, s_btime, s_mtime, s_seq}

\* the data structure has a top-level member named f of a kind the compiler keeps
Declares(typ, f) ==
    LET t == StripPtr(typ)
    IN t.Kind = reflect_Struct
       /\ \E i \in 1..Len(t.Fields) :
             TagName(t.Fields[i].Tag) = f /\ parseKind(t.Fields[i].Type) # KindInvalid

MissingFieldErrors ==
    {"struct must contain 'id' field", "struct must contain 'btime' field",
     "struct must contain 'mtime' field", "struct must contain 'seq' field"}

\* C7: Processor.Init returns an error for every data structure that lacks one
\* of id, btime, mtime, seq at the top level, and no missing-field error when
\* all four are there
C7_RequiredFields ==
    ret.fn = "Init" =>
        /\ (\E f \in Required : ~Declares(call.p.DataStruct, f)) => ret.err # ""
        /\ (\A f \in Required : Declares(call.p.DataStruct, f))
              => ret.err \notin MissingFieldErrors

C7_Witness ==
    /\ ret.fn = "Init"
    /\ call.p.Biz # <<>>
    /\ Declares(call.p.DataStruct, s_id)
    /\ Declares(call.p.DataStruct, s_btime)
    /\ Declares(call.p.DataStruct, s_mtime)
    /\ ~Declares(call.p.DataStruct, s_seq)
    /\ ret.err = "struct must contain 'seq' field"

\* --------------------------------------------------------------- requests
\* The handlers of TheProcessor with gCfg.EsEnable false and no Indexes: then
\* OnWriteDone leaves the search backend alone and nothing is pushed on the
\* index list.  A handler is one action per operation on the store; PUT has
\* two, its Find and its Upsert, and other requests may run between them.

ReqIds == {s_d1}     \* the ids clients address; GenUniqueID hands out unused ones
LongId == [i \in 1..129 |-> "x"]

B_empty == <<>>
B_name == Put(<<>>, s_name, Str(s_a))
B_co_a == Put(<<>>, s_co, Str(s_a))
B_co_b == Put(<<>>, s_co, Str(s_b))
B_ro == Put(<<>>, s_ro, Str(s_x))
B_seq == Put(<<>>, s_seq, Str(<<"9">>))
B_id == Put(<<>>, s_id, Str(s_g1))

\* the orders in which a range over the map may visit its keys
Orders(obj) == IF Cardinality(DOMAIN obj) > 1 THEN BOOLEAN ELSE {FALSE}

IdleSlot == [pc |-> "idle"]

Seq1 == <<"1">>
Seq2 == <<"2">>
SeqNo(doc) == ParseInt(doc[s_seq].v).n
Conflict == "id not found or seq conflict"

\* genRsp(code, msg, data); data is Nil or the map of the answer.  Two fields
\* are history: Clean, the answer is that of a PUT whose document was, when it
\* wrote, as its Find had seen it; Req, the id and seq that the versioned PATCH
\* so answered had presented to the store.
genRsp(code, msg, data) ==
    [Code |-> code, Msg |-> msg, Data |-> data, Clean |-> FALSE, Req |-> Nil]

NoRun == [tries |-> 0]

Init ==
    /\ store = <<>>
    /\ clock = 1
    /\ put = [r \in 1..MaxPut |-> IdleSlot]
    /\ rsp = genRsp(0, "", Nil)
    /\ tally = [id \in ReqIds |-> NoRun]
    /\ call = NoCall
    /\ ret = NoCall
    /\ index = IndexStart
    /\ es = EsStart

\* time.Now().Unix()
Now == Int64(clock)

Tick ==
    /\ clock < MaxTime
    /\ clock' = clock + 1
    /\ UNCHANGED <<store, put, rsp, tally, call, ret, index, es>>

\* a document matches a selector when it has every field of it with that value
Matches(doc, selector) == \A k \in DOMAIN selector : Has(doc, k) /\ doc[k] = selector[k]

\* a PUT, DELETE or POST that writes id ends the run of PATCHes counted on it
EndRun(t, id) == IF id \in DOMAIN t THEN [t EXCEPT ![id] = NoRun] ELSE t

\* an error answer that starts the OnWriteDone task and pushes the target of the
\* indexes all the same
AnswerAfterWriteDone(code, msg) ==
    /\ rsp' = genRsp(code, msg, Nil)
    /\ es' = GoOnWriteDone(es, "POST", s_d1, Nil)
    /\ index' = [index EXCEPT !.l = EnsureIndex(@, [Indexes |-> index.Indexes], s_a, s_x)]
    /\ UNCHANGED <<store, put, tally>>

\* return genRsp(code, msg, nil) before the store is written
Answer(code, msg) ==
    /\ rsp' = genRsp(code, msg, Nil)
    /\ UNCHANGED <<store, put, tally, index, es>>

\* what a handler does once the store has taken its write: it starts the
\* OnWriteDone task and pushes the target of its indexes
WriteDone(method, id, data) ==
    /\ Len(es.tasks) < MaxTasks
    /\ es' = GoOnWriteDone(es, method, id, data)
    /\ index' = [index EXCEPT !.l = EnsureIndex(@, [Indexes |-> index.Indexes], s_a, s_x)]

\* an Insert that would write over a document of the same _id
MgoInsertOver(doc) == [dup |-> FALSE, store |-> Put(store, DocOf(doc)[s__id].v, DocOf(doc))]

\* the outcome of dbc.Insert(&doc): mgo.IsDup(err), or the collection with doc
MgoInsert(doc) ==
    IF DocOf(doc)[s__id].v \in DOMAIN store THEN [dup |-> TRUE, store |-> store]
    ELSE [dup |-> FALSE, store |-> Put(store, DocOf(doc)[s__id].v, DocOf(doc))]

\* defaultPost of a processor with the FieldSet fs.  Each value a handler computes is bound once, in the order of
\* the code, by a quantifier over the set that holds just that value.
PostBy(fs, body, gen, rev) ==
    /\ Has(body, s_id) \/ gen \notin DOMAIN store
    /\ \E info0 \in {IF Has(body, s_id) THEN body ELSE Put(body, s_id, Str(gen))} :
       \E v \in {GetString(info0[s_id])} :
       \E chk \in {CheckObject(fs, info0, FALSE, rev)} :
       \E info1 \in {InReplace(chk.obj)} :
       \E info \in {Put(Put(Put(info1, s_btime, Now), s_mtime, Now), s_seq, Str(genSeq(0)))} :
       \E doc \in {InSort(fs, info)} :
          IF Has(body, s_id) /\ v = <<>> THEN Answer(400, "custom id empty")
          ELSE IF Has(body, s_id) /\ Len(v) > 128 THEN Answer(400, "custom id too long")
          ELSE IF chk.err THEN Answer(400, "invalid fields")
          ELSE IF MgoInsert(doc).dup THEN Answer(400, "duplicate id")
          ELSE /\ store' = MgoInsert(doc).store
               /\ rsp' = genRsp(200, "post ok", [id |-> info[s__id], seq |-> info[s_seq]])
               /\ tally' = EndRun(tally, info[s__id].v)
               /\ WriteDone("POST", info[s__id].v, Obj(info))
               /\ UNCHANGED put
    /\ UNCHANGED <<clock, call, ret>>

\* defaultPost of TheProcessor
Post(body, gen, rev) == PostBy(FS, body, gen, rev)

\* defaultPut, the document to write once the prior version has been read, as
\* it would be if the stored btime were not carried over
PutInfoBtimeNow(info1, now, old) ==
    LET info2 == Put(Put(Put(info1, s_btime, now), s_mtime, now), s_seq, Str(genSeq(0)))
    IN IF old = Nil \/ ~Has(old.v, s_seq) THEN info2
       ELSE IF old.v[s_seq].t # "string" THEN Nil
       ELSE IF nextSeq(old.v[s_seq].v).err THEN info2
       ELSE Put(info2, s_seq, Str(nextSeq(old.v[s_seq].v).seq))

\* defaultPut, the document to write as it would be if a stored seq that is no
\* number were written back
PutInfoSeqKept(info1, now, old) ==
    LET info2 == Put(Put(Put(info1, s_btime, now), s_mtime, now), s_seq, Str(genSeq(0)))
        info3 == IF old # Nil /\ Has(old.v, s_btime) THEN Put(info2, s_btime, old.v[s_btime])
                 ELSE info2
    IN IF old = Nil \/ ~Has(old.v, s_seq) THEN info3
       ELSE IF old.v[s_seq].t # "string" THEN Nil
       ELSE IF nextSeq(old.v[s_seq].v).err THEN Put(info3, s_seq, old.v[s_seq])
       ELSE Put(info3, s_seq, Str(nextSeq(old.v[s_seq].v).seq))

\* defaultPut, the document to write once the prior version has been read: old
\* is Nil (not found) or the btime / seq projection of the stored document.
\* Nil stands for the panic of v.(string) on a stored seq that is no string.
PutInfo(info1, now, old) ==
    LET info2 == Put(Put(Put(info1, s_btime, now), s_mtime, now), s_seq, Str(genSeq(0)))
        info3 == IF old # Nil /\ Has(old.v, s_btime) THEN Put(info2, s_btime, old.v[s_btime])
                 ELSE info2
    IN IF old = Nil \/ ~Has(old.v, s_seq) THEN info3
       ELSE IF old.v[s_seq].t # "string" THEN Nil
       ELSE IF nextSeq(old.v[s_seq].v).err THEN Put(info3, s_seq, Str(genSeq(0)))
       ELSE Put(info3, s_seq, Str(nextSeq(old.v[s_seq].v).seq))

\* dbc.Find(bson.M{"_id": id}).Select(bson.M{"btime": 1, "seq": 1}).One(&old)
FindOld(id) ==
    IF id \notin DOMAIN store THEN Nil
    ELSE Obj([k \in (DOMAIN store[id]) \cap {s__id, s_btime, s_seq} |-> store[id][k]])

\* defaultPut up to and including the Find
PutFind(r, id, body, rev) ==
    /\ put[r].pc = "idle"
    /\ \E chk \in {CheckObject(FS, Put(body, s_id, Str(id)), FALSE, rev)} :
       \E info1 \in {InReplace(chk.obj)} :
       \E old \in {FindOld(id)} :
       \E info \in {PutInfo(info1, Now, old)} :
          IF Len(id) > 128 THEN Answer(400, "id too long")
          ELSE IF chk.err THEN Answer(400, "invalid fields")
          ELSE IF info = Nil THEN Answer(0, "panic")
          ELSE /\ SeqNo(info) <= MaxSeq
               /\ put' = [put EXCEPT ![r] = [pc |-> "upsert", id |-> id, info |-> info,
                                             now |-> clock, old |-> old]]
               /\ UNCHANGED <<store, rsp, tally>>
    /\ UNCHANGED <<clock, call, ret, index, es>>

\* defaultPut from the Upsert on
PutUpsert(r) ==
    /\ put[r].pc = "upsert"
    /\ \E doc \in {InSort(FS, put[r].info)} :
          store' = Put(store, put[r].id, DocOf(doc))
    /\ rsp' = [genRsp(200, "put ok", [id |-> put[r].info[s__id], seq |-> put[r].info[s_seq]])
                  EXCEPT !.Clean = (FindOld(put[r].id) = put[r].old)]
    /\ put' = [put EXCEPT ![r] = IdleSlot]
    /\ tally' = EndRun(tally, put[r].id)
    /\ WriteDone("PUT", put[r].id, Obj(put[r].info))
    /\ UNCHANGED <<clock, call, ret>>

\* the selector of the versioned update, as it would be without the seq
PatchSelectorIdOnly(id, seq) == Put(<<>>, s__id, Str(id))

\* bson.M{"_id": id, "seq": seq}
PatchSelector(id, seq) == Put(Put(<<>>, s__id, Str(id)), s_seq, Str(seq))

\* History: the versioned PATCHes of id that presented the seq of the latest
\* one to win, counted from that win until a PUT, DELETE or POST writes id.
Won(t, seq, after) ==
    IF t.tries > 0 /\ t.seq = seq
    THEN [t EXCEPT !.tries = @ + 1, !.wins = @ + 1, !.after = after]
    ELSE [seq |-> seq, tries |-> 1, wins |-> 1, losses |-> 0, after |-> after]

Lost(t, seq) ==
    IF t.tries > 0 /\ t.seq = seq
    THEN [t EXCEPT !.tries = @ + 1, !.losses = @ + 1]
    ELSE t

Room(t, seq) == (t.tries > 0 /\ t.seq = seq) => t.tries < MaxTries

\* the outcome of dbc.Update(selector, bson.M{"$set": info})
MgoUpdate(selector, info) ==
    IF \A id \in DOMAIN store : ~Matches(store[id], selector)
    THEN [err |-> "not found"]
    ELSE LET id == CHOOSE x \in DOMAIN store : Matches(store[x], selector)
             set == MgoSet(store[id], info)
         IN IF set.ok THEN [err |-> "", id |-> id, doc |-> set.doc] ELSE [err |-> "refused"]

\* the update set of a PATCH as it would be if the opt-out left a seq of the
\* body in it
PatchSetWithSeq(info1, ignoreSeq, next, now) ==
    IF ignoreSeq THEN Put(info1, s_mtime, now)
    ELSE Put(Put(info1, s_seq, Str(next.seq)), s_mtime, now)

\* the update set of a PATCH: info after delete(info, "seq") or
\* info["seq"] = nextSeq, and info["mtime"] = now
PatchSet(info1, ignoreSeq, next, now) ==
    IF ignoreSeq THEN Put(Delete(info1, s_seq), s_mtime, now)
    ELSE Put(Put(info1, s_seq, Str(next.seq)), s_mtime, now)

\* defaultPatch of a processor with the FieldSet fs
PatchBy(fs, id, seq, ignoreSeq, body, rev) ==
    /\ \E chk \in {CheckObject(fs, body, TRUE, rev)} :
       \E info1 \in {InReplace(chk.obj)} :
       \E next \in {nextSeq(seq)} :
       \E info \in {PatchSet(info1, ignoreSeq, next, Now)} :
       \E selector \in {IF ignoreSeq THEN Put(<<>>, s__id, Str(id)) ELSE PatchSelector(id, seq)} :
       \E upd \in {MgoUpdate(selector, info)} :
          IF chk.err THEN Answer(400, "invalid fields")
          ELSE IF ~ignoreSeq /\ seq = <<>> THEN Answer(400, "need seq")
          ELSE IF ~ignoreSeq /\ next.err THEN Answer(400, "invalid seq")
          ELSE IF upd.err = "not found" /\ ~ignoreSeq
          THEN /\ Room(tally[id], seq)
               /\ rsp' = [genRsp(400, Conflict, Nil) EXCEPT !.Req = [id |-> id, seq |-> seq]]
               /\ tally' = [tally EXCEPT ![id] = Lost(@, seq)]
               /\ UNCHANGED <<store, put, index, es>>
          ELSE IF upd.err # "" THEN Answer(500, "db access fail")
          ELSE /\ SeqNo(upd.doc) <= MaxSeq
               /\ ignoreSeq \/ Room(tally[id], seq)
               /\ store' = Put(store, upd.id, upd.doc)
               /\ rsp' = IF ignoreSeq THEN genRsp(200, "patch ok", [id |-> Str(id)])
                         ELSE [genRsp(200, "patch ok", [id |-> Str(id), seq |-> info[s_seq]])
                                   EXCEPT !.Req = [id |-> id, seq |-> seq]]
               /\ tally' = IF ignoreSeq THEN tally
                           ELSE [tally EXCEPT ![id] = Won(@, seq, upd.doc[s_seq].v)]
               /\ WriteDone("PATCH", id, Nil)
               /\ UNCHANGED put
    /\ UNCHANGED <<clock, call, ret>>

\* defaultPatch of TheProcessor
Patch(id, seq, ignoreSeq, body, rev) == PatchBy(FS, id, seq, ignoreSeq, body, rev)

\* defaultDelete
DeleteDoc(id) ==
    /\ IF id \notin DOMAIN store THEN Answer(404, "id not found")
       ELSE /\ store' = [x \in (DOMAIN store) \ {id} |-> store[x]]
            /\ rsp' = genRsp(200, "delete ok", [id |-> Str(id)])
            /\ tally' = EndRun(tally, id)
            /\ WriteDone("DELETE", id, Nil)
            /\ UNCHANGED put
    /\ UNCHANGED <<clock, call, ret>>

\* a ReadOnly field is filled in by another system, not through the handlers
LoadOutOfBand(id) ==
    /\ id \in DOMAIN store
    /\ ~Has(store[id], s_ro)
    /\ store' = Put(store, id, Put(store[id], s_ro, Str(s_x)))
    /\ UNCHANGED <<clock, put, rsp, tally, call, ret, index, es>>

\* the seq parameter: a decimal string, or none, or no decimal string
Seqs == {FormatInt(n) : n \in 1..MaxSeq}
SeqParams == {<<>>, <<"x">>} \cup Seqs

\* ---- requests that pass validation and differ in seq, time and interleaving
PostBodies == {B_name, Put(<<>>, s_id, Str(s_d1))}
PutBodies == {B_seq}
PatchBodies == {B_name}

PostStep ==
    \E body \in PostBodies, gen \in ReqIds : \E rev \in Orders(body) : Post(body, gen, rev)

PutFindStep ==
    \E r \in 1..MaxPut, id \in ReqIds, body \in PutBodies, rev \in BOOLEAN :
        PutFind(r, id, body, rev)

PutUpsertStep == \E r \in 1..MaxPut : PutUpsert(r)

PatchStep ==
    \E id \in ReqIds, seq \in Seqs, ignoreSeq \in BOOLEAN, body \in PatchBodies :
        \E rev \in Orders(body) : Patch(id, seq, ignoreSeq, body, rev)

DeleteStep == \E id \in ReqIds : DeleteDoc(id)

Next == PostStep \/ PutFindStep \/ PutUpsertStep \/ PatchStep \/ DeleteStep \/ Tick

Spec == Init /\ [][Next]_vars

\* ---- requests, refused ones among them, that differ in the CreateOnly and
\* ReadOnly fields, within one second, with the ReadOnly field filled in from
\* outside
FieldPostBodies == {Put(B_co_a, s_id, Str(s_d1)), B_ro, Put(<<>>, s_id, Str(LongId)),
                    Put(<<>>, s_id, Float(10))}
FieldPutBodies == {B_empty, B_co_b}
FieldPatchBodies == {B_name, B_co_b, B_id}

FieldPostStep ==
    \E body \in FieldPostBodies, gen \in ReqIds : \E rev \in Orders(body) : Post(body, gen, rev)

FieldPutFindStep ==
    \E r \in 1..MaxPut, id \in ReqIds \cup {LongId}, body \in FieldPutBodies, rev \in BOOLEAN :
        PutFind(r, id, body, rev)

FieldPatchStep ==
    \E id \in ReqIds, seq \in SeqParams, ignoreSeq \in BOOLEAN, body \in FieldPatchBodies :
        \E rev \in Orders(body) : Patch(id, seq, ignoreSeq, body, rev)

LoadStep == \E id \in ReqIds : LoadOutOfBand(id)

NextFields ==
    FieldPostStep \/ FieldPutFindStep \/ PutUpsertStep \/ FieldPatchStep \/ DeleteStep \/ LoadStep

SpecFields == Init /\ [][NextFields]_vars

\* ------------------------------------------------- the seq of a document

\* the step is a versioned PATCH that reached the store
PatchTried ==
    /\ clock' = clock
    /\ put' = put
    /\ rsp'.Req # Nil
    /\ rsp' # rsp \/ store' # store \/ tally' # tally

\* the step is the Upsert of the PUT in slot r
PutWrote(r) == put[r].pc = "upsert" /\ put'[r].pc = "idle"

\* C1: of the versioned PATCHes of one id that present the same seq s, from
\* the first that meets the stored seq s on and with no PUT, DELETE or POST of
\* the id in between, exactly one succeeds, each other one is answered
\* 'id not found or seq conflict', and the stored seq is s+1.
C1_OneWinner ==
    \A id \in ReqIds :
        tally[id].tries > 0 =>
            /\ tally[id].wins = 1
            /\ tally[id].losses = tally[id].tries - 1
            /\ id \in DOMAIN store
            /\ SeqNo(store[id]) = ParseInt(tally[id].seq).n + 1
            /\ store[id][s_seq] = Str(tally[id].after)

C1_Witness ==
    \E id \in ReqIds : tally[id].tries >= 2 /\ tally[id].losses >= 1 /\ tally[id].wins = 1

\* C2: a versioned PATCH changes the store only if the seq it presents is the
\* stored one; when it succeeds the stored and the returned seq are the
\* presented one plus one, which differs from the presented one; when the id is
\* absent or the stored seq is another one, the store stays as it is and the
\* answer is 400 'id not found or seq conflict' without data.
C2_ConditionalWrite ==
    [][PatchTried =>
        LET id == rsp'.Req.id
            s == rsp'.Req.seq
            current == id \in DOMAIN store /\ store[id][s_seq] = Str(s)
        IN /\ store' # store => current
           /\ rsp'.Code = 200 =>
                 /\ current
                 /\ SeqNo(store'[id]) = ParseInt(s).n + 1
                 /\ rsp'.Data.seq = store'[id][s_seq]
                 /\ store'[id][s_seq] # Str(s)
           /\ ~current =>
                 /\ store' = store
                 /\ rsp'.Code = 400 /\ rsp'.Msg = Conflict /\ rsp'.Data = Nil]_vars

C2_Witness ==
    /\ rsp.Msg = Conflict
    /\ rsp.Req = [id |-> s_d1, seq |-> Seq1]
    /\ s_d1 \in DOMAIN store
    /\ store[s_d1][s_seq] = Str(Seq2)
    /\ tally[s_d1].tries > 0 /\ tally[s_d1].seq = Seq1 /\ tally[s_d1].losses = 1

\* C3: a document is created with seq "1", and each successful PUT or
\* versioned PATCH of a stored document leaves and returns its seq plus one.
C3_SeqAdvances ==
    [][\A id \in ReqIds :
        LET modified ==
                \/ \E r \in DOMAIN put : PutWrote(r) /\ put[r].id = id
                \/ PatchTried /\ rsp'.Req.id = id /\ rsp'.Code = 200
        IN /\ (id \notin DOMAIN store /\ id \in DOMAIN store') =>
                  store'[id][s_seq] = Str(Seq1)
           /\ (id \in DOMAIN store /\ id \in DOMAIN store' /\ modified) =>
                  /\ SeqNo(store'[id]) = SeqNo(store[id]) + 1
                  /\ rsp'.Data.seq = store'[id][s_seq]]_vars

\* C4: a PUT whose Upsert meets the document as its Find saw it creates an
\* absent document with seq "1" and btime = mtime = its now, and replaces a
\* stored document of seq n and btime b by one of seq n+1, btime b and
\* mtime = its now.
C4_PutAlone ==
    [][\A r \in DOMAIN put :
        (PutWrote(r) /\ FindOld(put[r].id) = put[r].old) =>
            LET id == put[r].id
                now == Int64(put[r].now)
            IN /\ id \in DOMAIN store'
               /\ store'[id][s_mtime] = now
               /\ IF id \notin DOMAIN store
                  THEN store'[id][s_seq] = Str(Seq1) /\ store'[id][s_btime] = now
                  ELSE /\ SeqNo(store'[id]) = SeqNo(store[id]) + 1
                       /\ store'[id][s_btime] = store[id][s_btime]]_vars

C4_Witness ==
    /\ rsp.Msg = "put ok" /\ rsp.Clean
    /\ s_d1 \in DOMAIN store
    /\ store[s_d1][s_seq] = Str(Seq2) /\ rsp.Data.seq = Str(Seq2)
    /\ store[s_d1][s_btime] = Int64(1)
    /\ store[s_d1][s_mtime] = Int64(2)

\* C5: while a document is stored, no request changes the value of its
\* CreateOnly field co.
C5_CreateOnlyKept ==
    [][\A id \in ReqIds :
        (id \in DOMAIN store /\ id \in DOMAIN store'
            /\ Has(store[id], s_co) /\ Has(store'[id], s_co)) =>
                store'[id][s_co] = store[id][s_co]]_vars

\* C6: a value of the ReadOnly field ro that is in a stored document is still
\* there, unchanged, after a POST, PUT or PATCH.
C6_ReadOnlyKept ==
    [][\A id \in ReqIds :
        (id \in DOMAIN store /\ id \in DOMAIN store' /\ Has(store[id], s_ro)) =>
            (Has(store'[id], s_ro) /\ store'[id][s_ro] = store[id][s_ro])]_vars

\* ------------------------------------------- policies on Map fields
s_rm == <<"r", "m">>
s_cm == <<"c", "m">>
s_rm_k == s_rm \o <<".">> \o s_k
s_cm_k == s_cm \o <<".">> \o s_k

\* a data structure with a Map field of each policy and one without policy
PolicyDoc ==
    StructOf(<<StructField(Omit(s_id), PtrTo(TypeOf(reflect_String))),
               StructField(Omit(s_name), PtrTo(TypeOf(reflect_String))),
               StructField(Omit(s_rm), MapOf(TypeOf(reflect_String))),
               StructField(Omit(s_cm), MapOf(TypeOf(reflect_String))),
               StructField(Omit(s_ext), MapOf(TypeOf(reflect_String))),
               StructField(Omit(s_btime), PtrTo(TypeOf(reflect_Int64))),
               StructField(Omit(s_mtime), PtrTo(TypeOf(reflect_Int64))),
               StructField(Omit(s_seq), PtrTo(TypeOf(reflect_String)))>>)

PolicyProcessor ==
    [Biz |-> <<"p", "o", "l">>, DataStruct |-> PtrTo(PolicyDoc),
     SearchFields |-> <<>>, RegexSearchFields |-> <<>>,
     CreateOnlyFields |-> <<s_cm>>, ReadOnlyFields |-> <<s_rm>>,
     Indexes |-> <<>>]

PolicyFS == ProcessorInit(PolicyProcessor).FieldSet

PolicyCand ==
    [k \in {s_name, s_rm, s_cm, s_rm_k, s_cm_k, s_ext_k} |->
        CASE k = s_name -> {Str(s_a)}
          [] k = s_rm -> {Obj(Put(<<>>, s_k, Str(s_a)))}
          [] k = s_cm -> {Obj(Put(<<>>, s_k, Str(s_a)))}
          [] k = s_rm_k -> {Str(s_a), Float(10)}
          [] k = s_cm_k -> {Str(s_a), Float(10)}
          [] k = s_ext_k -> {Str(s_a), Float(10)}]

PolicyDocs == DocsOver(<<s_name, s_rm, s_cm, s_rm_k, s_cm_k, s_ext_k>>, PolicyCand)

InitPolicy ==
    /\ IdleProtocol
    /\ \E obj \in PolicyDocs, dotOk \in BOOLEAN, rev \in BOOLEAN :
          call = [fn |-> "CheckPolicy", obj |-> obj, dotOk |-> dotOk, rev |-> rev]
    /\ ret = NoCall

\* err := p.FieldSet.CheckObject(info, dotOk), for the PolicyProcessor
DoCheckPolicy ==
    /\ call.fn = "CheckPolicy"
    /\ ret = NoCall
    /\ ret' = [fn |-> "CheckPolicy"] @@ CheckObject(PolicyFS, call.obj, call.dotOk, call.rev)
    /\ UNCHANGED <<call, protocolVars, index, es>>

NextPolicy == DoCheckPolicy

SpecPolicy == InitPolicy /\ [][NextPolicy]_vars

\* the key k addresses the field f or a path beneath it
Addresses(k, f) == k = f \/ HasPrefix(k, f \o <<".">>)

\* C11: in patch mode every key that addresses the ReadOnly Map field rm or the
\* CreateOnly Map field cm, the dotted keys rm.k and cm.k included, is reported
\* as a violation and removed from the document.
C11_PolicyKeysRejected ==
    (ret.fn = "CheckPolicy" /\ call.dotOk) =>
        \A k \in DOMAIN call.obj :
            (Addresses(k, s_rm) \/ Addresses(k, s_cm)) =>
                (Has(ret.invalidFields, k) /\ ~Has(ret.obj, k))

\* -------------------------------------------------------- query compiler
s_gt == <<"g", "t">>
s_gte == <<"g", "t", "e">>
s_lt == <<"l", "t">>
s_lte == <<"l", "t", "e">>
s_in == <<"i", "n">>
s_nin == <<"n", "i", "n">>
s_all == <<"a", "l", "l">>
s_or == <<"o", "r">>
s_filter == <<"f", "i", "l", "t", "e", "r">>
s_range == <<"r", "a", "n", "g", "e">>

\* the operator name of the store for a clause name: gt --> $gt
Dollar(name) == <<"$">> \o name

KindSimpleEnd == 999

\* the int 0 of EmptyValue
IntOf(n) == [t |-> "int", v |-> n]

IsEmptyBool(value) == value = Nil \/ (value.t = "bool" /\ value.v = FALSE)

IsEmptyNumber(value) == value = Nil \/ (value.t = "float64" /\ value.v = 0)

IsEmptyString(value) == value = Nil \/ (value.t = "string" /\ value.v = <<>>)

IsEmptyArray(value) == value = Nil \/ (value.t = "array" /\ value.v = <<>>)

IsEmptyObject(value) == value = Nil \/ (value.t = "object" /\ value.v = <<>>)

IsEmpty(value, kind) ==
    CASE kind = KindBool -> IsEmptyBool(value)
      [] KindInt <= kind /\ kind < KindFloat -> IsEmptyNumber(value)
      [] kind = KindString -> IsEmptyString(value)
      [] kind = KindObject -> IsEmptyObject(value)
      [] KindArrayBase < kind /\ kind < KindArrayEnd -> IsEmptyArray(value)
      [] KindMapBase < kind /\ kind < KindMapEnd -> IsEmptyObject(value)
      [] OTHER -> FALSE

EmptyValue(kind) ==
    CASE kind = KindBool -> Bool(FALSE)
      [] kind \in {KindInt, KindUint, KindFloat} -> IntOf(0)
      [] kind = KindString -> Str(<<>>)
      [] kind = KindObject -> Obj(<<>>)
      [] kind > KindArrayBase /\ kind < KindArrayEnd -> Arr(<<>>)
      [] kind > KindMapBase /\ kind < KindMapEnd -> Obj(<<>>)
      [] OTHER -> Nil

ParseSimpleValue(value, kind) ==
    IF value = Nil THEN Nil
    ELSE CASE kind = KindBool -> CheckBool(value)
           [] kind = KindInt -> CheckInt(value)
           [] kind = KindUint -> CheckUint(value)
           [] kind = KindFloat -> CheckFloat(value)
           [] kind = KindString -> CheckString(value)
           [] kind = KindObject -> CheckObjectValue(value)
           [] OTHER -> Nil

\* a nil element is kept as nil; an element that ParseSimpleValue refuses is
\* left out and the loop goes on
ParseSimpleArray(value, kind) ==
    IF value.t # "array" THEN Nil
    ELSE LET conv == [i \in 1..Len(value.v) |->
                        IF value.v[i] = Nil THEN [keep |-> TRUE, v |-> Nil]
                        ELSE LET simpleValue == ParseSimpleValue(value.v[i], kind)
                             IN [keep |-> simpleValue # Nil, v |-> simpleValue]]
             kept == SelectSeq(conv, LAMBDA c : c.keep)
             r == [i \in 1..Len(kept) |-> kept[i].v]
         IN IF Len(r) > 0 THEN Arr(r) ELSE Nil

\* fmt.Errorf("<clause> field %s <what>", k)
Errorf(clause, k, what) == [clause |-> clause, field |-> k, what |-> what]

Built(cond) == [err |-> Nil, cond |-> cond]

Failed(clause, k, what, cond) == [err |-> Errorf(clause, k, what), cond |-> cond]

\* a writer that would never find its field in the condition
existNever(cond, k) == FALSE

\* _, exist := cond[k]
exist(cond, k) == Has(cond, k)

\* the body of the loop of BuildFilterObj
filterKey(fs, k, value, cond) ==
    LET m == IsFieldMember(fs, k)
        kind == m.kind
    IN IF exist(cond, k) THEN Failed(s_filter, k, "condition conflict", cond)
       ELSE IF ~m.ok THEN Failed(s_filter, k, "unknown", cond)
       ELSE IF (kind # KindInvalid /\ value = Nil) \/ IsEmpty(value, kind)
       THEN LET empty == EmptyValue(kind)
            IN IF empty = Nil THEN Built(Put(cond, k, Nil))
               ELSE Built(Put(cond, k, Obj(Put(<<>>, Dollar(s_in), Arr(<<Nil, empty>>)))))
       ELSE IF kind >= KindBool /\ kind < KindSimpleEnd
       THEN LET v == ParseSimpleValue(value, kind)
            IN IF v # Nil THEN Built(Put(cond, k, v))
               ELSE Failed(s_filter, k, "type mismatch", cond)
       ELSE IF kind > KindArrayBase /\ kind < KindArrayEnd
       THEN IF value.t = "array" THEN Built(Put(cond, k, value))
            ELSE Failed(s_filter, k, "type mismatch", cond)
       ELSE IF kind > KindMapBase /\ kind < KindMapEnd
       THEN LET v == ParseKindValue(value, kind - KindMapBase)
            IN IF v # Nil THEN Built(Put(cond, k, v))
               ELSE Failed(s_filter, k, "type mismatch", cond)
       ELSE Built(cond)

\* the bounds of one field of a range clause, in the order the code reads them
rangeBounds(k, mv, kind, cond) ==
    LET bound(name) == ParseSimpleValue(mv[name], kind)
        obj == [op \in {Dollar(name) : name \in {s_gt, s_gte, s_lt, s_lte} \cap DOMAIN mv} |->
                   bound(Tail(op))]
    IN IF Has(mv, s_gt) /\ bound(s_gt) = Nil THEN Failed(s_range, k, "type mismatch", cond)
       ELSE IF Has(mv, s_gte) /\ Has(mv, s_gt)
       THEN Failed(s_range, k, "gt or gte conflict", cond)
       ELSE IF Has(mv, s_gte) /\ bound(s_gte) = Nil
       THEN Failed(s_range, k, "type mismatch", cond)
       ELSE IF Has(mv, s_lt) /\ bound(s_lt) = Nil THEN Failed(s_range, k, "type mismatch", cond)
       ELSE IF Has(mv, s_lte) /\ Has(mv, s_lt)
       THEN Failed(s_range, k, "lt or lte conflict", cond)
       ELSE IF Has(mv, s_lte) /\ bound(s_lte) = Nil
       THEN Failed(s_range, k, "type mismatch", cond)
       ELSE IF DOMAIN obj # {} THEN Built(Put(cond, k, Obj(obj)))
       ELSE Failed(s_range, k, "invalid", cond)

\* the body of the loop of BuildRangeObj
rangeKey(fs, k, value, cond) ==
    LET m == IsFieldMember(fs, k)
        kind == IF m.kind >= KindMapBool /\ m.kind <= KindMapString
                THEN m.kind - KindMapBase ELSE m.kind
    IN IF exist(cond, k) THEN Failed(s_range, k, "condition conflict", cond)
       ELSE IF value.t # "object" THEN Failed(s_range, k, "not map", cond)
       ELSE IF ~m.ok THEN Failed(s_range, k, "unknown", cond)
       ELSE IF kind >= KindBool /\ kind <= KindString
       THEN rangeBounds(k, value.v, kind, cond)
       ELSE Failed(s_range, k, "type not support", cond)

\* the body of the loop of BuildInObj, BuildNinObj and BuildAllObj, which
\* differ in the name of the clause only
arrayKey(clause, fs, k, value, cond) ==
    LET m == IsFieldMember(fs, k)
        k1 == IF m.kind >= KindArrayBool /\ m.kind <= KindArrayString
              THEN m.kind - KindArrayBase ELSE m.kind
        kind == IF k1 >= KindMapBool /\ k1 <= KindMapString THEN k1 - KindMapBase ELSE k1
    IN IF exist(cond, k) THEN Failed(clause, k, "condition conflict", cond)
       ELSE IF ~m.ok THEN Failed(clause, k, "unknown", cond)
       ELSE IF kind >= KindBool /\ kind <= KindString
       THEN LET v == ParseSimpleArray(value, kind)
            IN IF v # Nil
               THEN Built(Put(cond, k, Obj(Put(<<>>, Dollar(clause), v))))
               ELSE Failed(clause, k, "should be array or elem type mismatch", cond)
       ELSE Failed(clause, k, "type not support", cond)

\* for k, value := range m { ... }: the keys in the order of the iteration,
\* up to the first one that returns an error
RECURSIVE buildKeys(_, _, _, _, _)
buildKeys(clause, fs, keys, m, cond) ==
    IF keys = <<>> THEN Built(cond)
    ELSE LET k == Head(keys)
             r == CASE clause = s_filter -> filterKey(fs, k, m[k], cond)
                    [] clause = s_range -> rangeKey(fs, k, m[k], cond)
                    [] OTHER -> arrayKey(clause, fs, k, m[k], cond)
         IN IF r.err # Nil THEN r ELSE buildKeys(clause, fs, Tail(keys), m, r.cond)

BuildFilterObj(fs, filter, cond, rev) ==
    buildKeys(s_filter, fs, KeyOrder(DOMAIN filter, rev), filter, cond)

BuildRangeObj(fs, rang, cond, rev) ==
    buildKeys(s_range, fs, KeyOrder(DOMAIN rang, rev), rang, cond)

BuildInObj(fs, in, cond, rev) == buildKeys(s_in, fs, KeyOrder(DOMAIN in, rev), in, cond)

BuildNinObj(fs, nin, cond, rev) == buildKeys(s_nin, fs, KeyOrder(DOMAIN nin, rev), nin, cond)

BuildAllObj(fs, all, cond, rev) == buildKeys(s_all, fs, KeyOrder(DOMAIN all, rev), all, cond)

\* the writer of a clause of the query string
BuildClause(clause, fs, m, cond, rev) ==
    CASE clause = s_filter -> BuildFilterObj(fs, m, cond, rev)
      [] clause = s_range -> BuildRangeObj(fs, m, cond, rev)
      [] clause = s_in -> BuildInObj(fs, m, cond, rev)
      [] clause = s_nin -> BuildNinObj(fs, m, cond, rev)
      [] clause = s_all -> BuildAllObj(fs, m, cond, rev)

\* a data structure with a field of every kind: f? simple, a? array, m? map
QueryElems ==
    <<[c |-> "b", typ |-> TypeOf(reflect_Bool)], [c |-> "i", typ |-> TypeOf(reflect_Int64)],
      [c |-> "u", typ |-> TypeOf(reflect_Uint64)], [c |-> "f", typ |-> TypeOf(reflect_Float64)],
      [c |-> "s", typ |-> TypeOf(reflect_String)], [c |-> "o", typ |-> Info]>>

QueryDoc ==
    StructOf([i \in 1..(3 * Len(QueryElems)) |->
        LET e == QueryElems[((i - 1) % Len(QueryElems)) + 1]
        IN CASE i <= Len(QueryElems) -> StructField(Omit(<<"f", e.c>>), PtrTo(e.typ))
             [] i > 2 * Len(QueryElems) -> StructField(Omit(<<"m", e.c>>), MapOf(e.typ))
             [] OTHER -> StructField(Omit(<<"a", e.c>>), SliceOf(e.typ))])

QueryFS == BuildFieldSet(PtrTo(QueryDoc))

\* the fields of QueryDoc, and a name that is none
QueryFields == {<<p, QueryElems[i].c>> : p \in {"f", "a", "m"}, i \in 1..Len(QueryElems)}

QueryKind(k) == QueryFS.FMap[k].Kind

\* ----------------------------------------------- the condition of a query
Clauses == {s_filter, s_range, s_in, s_nin, s_all}

s_fs == <<"f", "s">>
s_fi == <<"f", "i">>

FilterValues ==
    {Nil, Bool(FALSE), Bool(TRUE), Float(0), Float(10), Str(<<>>), Str(s_a),
     Obj(<<>>), Obj(Put(<<>>, s_k, Str(s_a))), Arr(<<>>), Arr(<<Str(s_a)>>)}

RangeValues ==
    {Str(s_a), Obj(<<>>), Obj(Put(<<>>, s_gt, Float(10))),
     Obj(Put(Put(<<>>, s_gt, Float(10)), s_gte, Float(10))),
     Obj(Put(Put(<<>>, s_gte, Float(10)), s_lt, Float(20))),
     Obj(Put(Put(<<>>, s_lt, Float(20)), s_lte, Float(20))),
     Obj(Put(<<>>, s_lte, Str(s_a)))}

ArrayValues ==
    {Nil, Str(s_a), Arr(<<>>), Arr(<<Str(s_a)>>), Arr(<<Float(10)>>), Arr(<<Bool(TRUE)>>),
     Arr(<<Nil>>), Arr(<<Str(s_a), Str(s_b)>>), Arr(<<Str(s_b), Str(s_a)>>),
     Arr(<<Str(s_a), Float(10)>>), Arr(<<Float(10), Str(s_a)>>),
     Arr(<<Float(20), Float(10)>>), Arr(<<Obj(<<>>)>>)}

ClauseValues(clause) ==
    CASE clause = s_filter -> FilterValues
      [] clause = s_range -> RangeValues
      [] OTHER -> ArrayValues

\* the requests of one clause on one field
SingleRequests ==
    {Put(<<>>, clause, Put(<<>>, k, v)) :
        <<clause, k, v>> \in {x \in Clauses \X (QueryFields \cup {s_bogus}) \X
                                    (FilterValues \cup RangeValues \cup ArrayValues) :
                                  x[3] \in ClauseValues(x[1])}}

ComboMaps ==
    [clause \in Clauses |->
        CASE clause = s_filter ->
                {Put(<<>>, s_fs, Str(s_a)), Put(<<>>, s_fi, Float(10)),
                 Put(Put(<<>>, s_fs, Str(s_a)), s_fi, Nil)}
          [] clause = s_range ->
                {Put(<<>>, s_fi, Obj(Put(<<>>, s_gt, Float(10)))),
                 Put(<<>>, s_fs, Obj(Put(<<>>, s_lte, Str(s_a))))}
          [] clause = s_in ->
                {Put(<<>>, s_fs, Arr(<<Str(s_a)>>)), Put(<<>>, s_fi, Arr(<<Float(10)>>)),
                 Put(<<>>, s_bogus, Arr(<<Str(s_a)>>))}
          [] clause = s_nin ->
                {Put(<<>>, s_fs, Arr(<<Str(s_b)>>)), Put(<<>>, s_fi, Arr(<<Float(20)>>))}
          [] clause = s_all ->
                {Put(<<>>, <<"a", "s">>, Arr(<<Str(s_a)>>)),
                 Put(Put(<<>>, <<"a", "s">>, Arr(<<Str(s_a)>>)), s_fs, Arr(<<Str(s_a)>>))}]

\* the requests of several clauses
ComboRequests == DocsOver(<<s_filter, s_range, s_in, s_nin, s_all>>, ComboMaps)

RequestOrders(q) ==
    IF \E clause \in DOMAIN q : Cardinality(DOMAIN q[clause]) > 1 THEN BOOLEAN ELSE {FALSE}

\* condition := make(map[string]interface{})
InitQuery ==
    /\ IdleProtocol
    /\ \E q \in SingleRequests \cup ComboRequests : \E rev \in RequestOrders(q) :
          call = [fn |-> "GetPage", q |-> q, rev |-> rev]
    /\ ret = [fn |-> "GetPage", cond |-> <<>>, done |-> {}, err |-> Nil]

\* if query.Get(clause) != "" { err = p.FieldSet.Build...Obj(m, condition) }
Compile(clause) ==
    /\ call.fn = "GetPage"
    /\ ret.err = Nil
    /\ clause \in (DOMAIN call.q) \ ret.done
    /\ \E r \in {BuildClause(clause, QueryFS, call.q[clause], ret.cond, call.rev)} :
          ret' = [fn |-> "GetPage", cond |-> r.cond, done |-> ret.done \cup {clause},
                  err |-> r.err]
    /\ UNCHANGED <<call, protocolVars, index, es>>

CompileFilter == Compile(s_filter)

CompileRange == Compile(s_range)

CompileIn == Compile(s_in)

CompileNin == Compile(s_nin)

CompileAll == Compile(s_all)

NextQuery == CompileFilter \/ CompileRange \/ CompileIn \/ CompileNin \/ CompileAll

SpecQuery == InitQuery /\ [][NextQuery]_vars

\* the request was one clause on one field, and the clause has been compiled
Compiled(clause, k) ==
    /\ ret.fn = "GetPage"
    /\ DOMAIN call.q = {clause}
    /\ DOMAIN call.q[clause] = {k}
    /\ ret.done = {clause}

\* the zero value of a kind, as the JSON of a query carries it
JSONZero(kind) ==
    CASE kind = KindBool -> Bool(FALSE)
      [] kind \in {KindInt, KindUint, KindFloat} -> Float(0)
      [] kind = KindString -> Str(<<>>)
      [] kind > KindArrayBase /\ kind < KindArrayEnd -> Arr(<<>>)
      [] OTHER -> Obj(<<>>)

\* the predicate "matches null or the zero value of the kind"
NullOrZero(kind) == Obj(Put(<<>>, Dollar(s_in), Arr(<<Nil, EmptyValue(kind)>>)))

\* C12: for a field of any kind, a filter value of null and a filter value equal
\* to the zero value of the kind both compile, and to the same predicate:
\* the field matches null or the zero value of the kind.
C12_NullAndZeroAlike ==
    \A k \in QueryFields :
        (/\ Compiled(s_filter, k)
         /\ call.q[s_filter][k] \in {Nil, JSONZero(QueryKind(k))})
            => (ret.err = Nil /\ ret.cond = Put(<<>>, k, NullOrZero(QueryKind(k))))

\* the kind of the elements an in, nin or all clause compares the field with
ElemKind(kind) ==
    IF kind > KindMapBase THEN kind - KindMapBase
    ELSE IF kind > KindArrayBase THEN kind - KindArrayBase ELSE kind

\* every element of the array is null or can be coerced to the kind
Coercible(value, kind) ==
    /\ value.t = "array"
    /\ Len(value.v) > 0
    /\ \A i \in 1..Len(value.v) :
          value.v[i] = Nil \/ ParseSimpleValue(value.v[i], kind) # Nil

Coerced(value, kind) == Arr([i \in 1..Len(value.v) |-> ParseSimpleValue(value.v[i], kind)])

\* C13: on a field whose elements are of a simple kind, an in, nin or all clause
\* compiles exactly when its value is a non-empty array of elements that can all
\* be coerced to that kind (a null element stands for itself), and then the
\* operand is the array of all the elements, coerced, in their order.
C13_ArrayOperand ==
    \A clause \in {s_in, s_nin, s_all} : \A k \in QueryFields :
        (Compiled(clause, k) /\ ElemKind(QueryKind(k)) # KindObject) =>
            LET value == call.q[clause][k]
                kind == ElemKind(QueryKind(k))
            IN /\ (ret.err = Nil) <=> Coercible(value, kind)
               /\ (ret.err = Nil) =>
                     ret.cond = Put(<<>>, k, Obj(Put(<<>>, Dollar(clause), Coerced(value, kind))))

\* the clauses compiled so far that name the field k
Naming(k) == {clause \in ret.done : k \in DOMAIN call.q[clause]}

\* C14: while no writer has returned an error, every field of the condition is a
\* member of the schema and is named by exactly one of the clauses compiled so
\* far, and every field those clauses name is in the condition; this whatever
\* the clauses of the request and the order of their writers.
C14_OneClausePerField ==
    (ret.fn = "GetPage" /\ ret.err = Nil) =>
        /\ DOMAIN ret.cond = UNION {DOMAIN call.q[clause] : clause \in ret.done}
        /\ \A k \in DOMAIN ret.cond :
              IsFieldMember(QueryFS, k).ok /\ Cardinality(Naming(k)) = 1

\* a condition of three fields, compiled from three clauses
C14_Witness ==
    /\ ret.fn = "GetPage"
    /\ ret.err = Nil
    /\ Cardinality(ret.done) = 3
    /\ Cardinality(DOMAIN ret.cond) = 3

\* ---------------------------------------------------- index queue, in use
MaxPush == 5     \* pushes of one target counted while it is queued
MaxTicks == 3    \* times the clock moves

s_c == <<"c">>

\* of a Processor, what the worker reads
IndexedProcessor == [Indexes |-> <<[Key |-> <<s_name>>, Unique |-> FALSE]>>]

\* IndexToEnsureStruct{DB: p.GetDbName(query), Table: p.GetTableName(query), Processor: p}
Targets ==
    {[DB |-> db, Table |-> s_x, Processor |-> IndexedProcessor] : db \in {s_a, s_b, s_c}}

KeyOf(idx) == getIndexMapKey(idx.DB, idx.Table)

\* the pushes of a key counted since it was last popped
Pushes(k) == IF Has(tally, k) THEN tally[k] ELSE 0

InitQueue ==
    /\ IdleProtocol
    /\ call = NoCall
    /\ ret = NoCall

\* getIndexEnsureList().Push(&IndexToEnsureStruct{...})
QueuePush ==
    \E idx \in Targets :
        /\ Pushes(KeyOf(idx)) < MaxPush
        /\ index' = [index EXCEPT !.l = Push(@, idx)]
        /\ tally' = Put(tally, KeyOf(idx), Pushes(KeyOf(idx)) + 1)
        /\ UNCHANGED <<store, clock, put, rsp, call, ret, es>>

\* idx := getIndexEnsureList().Pop()
QueuePop ==
    \E r \in {Pop(index.l)} :
        /\ index' = [index EXCEPT !.l = r.l]
        /\ tally' = IF r.idx = Nil THEN tally ELSE Delete(tally, KeyOf(r.idx))
        /\ UNCHANGED <<store, clock, put, rsp, call, ret, es>>

NextQueue == QueuePush \/ QueuePop

SpecQueue == InitQueue /\ [][NextQueue]_vars

\* the places of the list that hold the key
Places(k) ==
    {i \in 1..Len(index.l.indexToEnsureList) : index.l.indexToEnsureList[i] = k}

\* C15: the list of the pending queue holds each key at most once, the keys it
\* holds are the keys of the lookup map, and a target pushed any number of
\* times since it was last popped is in the list exactly once.
C15_QueuedOnce ==
    /\ \A idx \in Targets : Cardinality(Places(KeyOf(idx))) <= 1
    /\ {index.l.indexToEnsureList[i] : i \in 1..Len(index.l.indexToEnsureList)}
          = DOMAIN index.l.indexToEnsureMap
    /\ \A idx \in Targets : Pushes(KeyOf(idx)) >= 1 => Cardinality(Places(KeyOf(idx))) = 1

\* a target pushed MaxPush times and not popped yet, behind another one
C15_Witness ==
    \E idx \in Targets :
        /\ Pushes(KeyOf(idx)) = MaxPush
        /\ Places(KeyOf(idx)) = {2}
        /\ Len(index.l.indexToEnsureList) = 2

\* ------------------------------------------------------- ensureIndexTask
NoPass == [k |-> <<>>, out |-> "none", calls |-> {}]

InitWorker ==
    /\ IdleProtocol
    /\ call = NoCall
    /\ ret = NoCall

\* the targets of the handlers the worker serves
WorkerTargets == {idx \in Targets : idx.DB \in {s_a, s_b}}

\* a handler pushes its target after a write or a page
WorkerPush ==
    \E idx \in WorkerTargets :
        /\ index' = [index EXCEPT !.l = Push(@, idx)]
        /\ UNCHANGED <<store, clock, put, rsp, tally, call, ret, es>>

\* the loop of ensureIndexTask from Pop to Exist: the worker goes on to the
\* store with the element, or continues with the next turn of the loop
WorkerPop ==
    /\ index.idx = Nil
    /\ \E r \in {Pop(index.l)} :
          IF r.idx = Nil \/ r.idx.DB = <<>> \/ r.idx.Table = <<>>
                \/ Len(r.idx.Processor.Indexes) = 0
          THEN index' = [index EXCEPT !.l = r.l, !.last = NoPass]
          ELSE IF Exist(index.M, KeyOf(r.idx), clock)
          THEN index' = [index EXCEPT !.l = r.l,
                            !.last = [k |-> KeyOf(r.idx), out |-> "fresh", calls |-> {}]]
          ELSE index' = [index EXCEPT !.l = r.l, !.idx = r.idx,
                            !.last = [k |-> KeyOf(r.idx), out |-> "diff", calls |-> {}]]
    /\ UNCHANGED <<store, clock, put, rsp, tally, call, ret, es>>

\* a worker that marks a target only when no EnsureIndex of the pass failed
SetAfterLoopClean(M, k, now, failed) == IF failed = {} THEN Put(M, k, now + EnsuredFor) ELSE M

\* getIndexEnsuredMap().Set(k) after the loop over the indexes, failed being
\* the indexes whose EnsureIndex returned an error
SetAfterLoop(M, k, now, failed) == Set(M, k, now)

\* dbc.Indexes() of the target the worker holds
indexesInDB(k) == IF Has(index.db, k) THEN index.db[k] ELSE {}

\* the loop of ensureIndexTask from dbc.Indexes() to Set: Indexes may fail, and
\* so may each EnsureIndex, which is logged and nothing more
WorkerDiff ==
    /\ index.idx # Nil
    /\ \E k \in {KeyOf(index.idx)} : \E err \in BOOLEAN :
          IF err
          THEN index' = [index EXCEPT !.idx = Nil,
                            !.last = [k |-> k, out |-> "failed", calls |-> {"Indexes"}]]
          ELSE \E missing \in {{i \in 1..Len(index.idx.Processor.Indexes) :
                                   index.idx.Processor.Indexes[i] \notin indexesInDB(k)}} :
               \E made \in SUBSET missing :
                  index' = [index EXCEPT
                      !.idx = Nil,
                      !.db = Put(@, k, indexesInDB(k) \cup
                                       {index.idx.Processor.Indexes[i] : i \in made}),
                      !.M = SetAfterLoop(@, k, clock, missing \ made),
                      !.marked = Put(@, k, clock),
                      !.last = [k |-> k, out |-> "ensured",
                                calls |-> IF missing = {} THEN {"Indexes"}
                                          ELSE {"Indexes", "EnsureIndex"}]]
    /\ UNCHANGED <<store, clock, put, rsp, tally, call, ret, es>>

\* time passes: a second, or all of the window but a second
WorkerTick ==
    /\ index.ticks < MaxTicks
    /\ \E d \in {1, EnsuredFor - 1} : clock' = clock + d
    /\ index' = [index EXCEPT !.ticks = @ + 1]
    /\ UNCHANGED <<store, put, rsp, tally, call, ret, es>>

NextWorker == WorkerPush \/ WorkerPop \/ WorkerDiff \/ WorkerTick

SpecWorker == InitWorker /\ [][NextWorker]_vars

\* the worker takes the first element off the list
Popping ==
    /\ index.idx = Nil
    /\ index.l.indexToEnsureList # <<>>
    /\ index'.l.indexToEnsureList = Tail(index.l.indexToEnsureList)

\* C16: when the worker pops a target that a pass marked ensured at time t, it
\* skips it without a call on the store while the clock is before t + 600, and
\* goes on to the store with it once the clock has reached t + 600.
C16_FreshSkipped ==
    [][\A k \in DOMAIN index.marked :
          (Popping /\ Head(index.l.indexToEnsureList) = k) =>
              IF clock < index.marked[k] + EnsuredFor
              THEN index'.idx = Nil /\ index'.last.calls = {} /\ index'.db = index.db
              ELSE index'.idx = index.l.indexToEnsureMap[k]]_vars

\* a target skipped in the last second of its window
C16_Witness ==
    /\ index.last.out = "fresh"
    /\ Has(index.marked, index.last.k)
    /\ clock = index.marked[index.last.k] + EnsuredFor - 1

\* ------------------------------------------- PATCH without the versioning
B_name_seq == Put(Put(<<>>, s_name, Str(s_b)), s_seq, Str(Seq1))

\* the opt-out PATCH comes with no seq parameter or with one that is no number
OptOutBodies == {B_empty, B_name_seq}

OptOutStep ==
    \E id \in ReqIds, seq \in {<<>>, <<"x">>}, body \in OptOutBodies :
        \E rev \in Orders(body) : Patch(id, seq, TRUE, body, rev)

NextOptOut == PostStep \/ OptOutStep \/ PatchStep \/ Tick

SpecOptOut == Init /\ [][NextOptOut]_vars

\* the step is a PATCH with ignore_seq=true that was answered 200
OptedOut ==
    /\ clock' = clock
    /\ rsp'.Msg = "patch ok"
    /\ rsp'.Req = Nil

\* C17: a PATCH with ignore_seq=true, which comes without a usable seq
\* parameter, is never refused for an id that is stored; it leaves the seq of
\* the stored document as it was, whatever the body holds, and sets mtime to the
\* time of the request, so that the selector of a versioned PATCH with the seq
\* read before it still matches the document.
C17_OptOutKeepsSeq ==
    [][/\ (clock' = clock /\ rsp'.Code = 500) => store = <<>>
       /\ OptedOut =>
             \E id \in DOMAIN store :
                /\ rsp'.Data = [id |-> Str(id)]
                /\ DOMAIN store' = DOMAIN store
                /\ store'[id][s_seq] = store[id][s_seq]
                /\ store'[id][s_mtime] = Now
                /\ store'[id][s_btime] = store[id][s_btime]
                /\ Matches(store'[id], PatchSelector(id, store[id][s_seq].v))]_vars

\* an opt-out PATCH whose body held a seq has written the name of that body in
\* a document whose seq a versioned PATCH had moved to "2"
C17_Witness ==
    /\ rsp.Msg = "patch ok"
    /\ rsp.Req = Nil
    /\ s_d1 \in DOMAIN store
    /\ Has(store[s_d1], s_name)
    /\ store[s_d1][s_name] = Str(s_b)
    /\ store[s_d1][s_seq] = Str(Seq2)
    /\ store[s_d1][s_mtime] = Now
    /\ store[s_d1][s_btime] # Now

\* ------------------------------------------------------------------ POST
\* the step is a POST that reached the store
PostAnswered ==
    /\ clock' = clock
    /\ put' = put
    /\ rsp'.Msg \in {"post ok", "duplicate id"}

\* C18: a POST changes no stored document; one that is answered 'duplicate id'
\* changes nothing, and one that is answered 'post ok' has stored a document
\* under an id that was not in use, with seq "1" and btime = mtime = the time of
\* the request, and returns that id.
C18_PostNeverOverwrites ==
    [][PostAnswered =>
          /\ \A id \in DOMAIN store : id \in DOMAIN store' /\ store'[id] = store[id]
          /\ rsp'.Msg = "duplicate id" => store' = store
          /\ rsp'.Msg = "post ok" =>
                \E id \in (DOMAIN store') \ (DOMAIN store) :
                   /\ rsp'.Data = [id |-> Str(id), seq |-> Str(Seq1)]
                   /\ store'[id][s__id] = Str(id)
                   /\ store'[id][s_seq] = Str(Seq1)
                   /\ store'[id][s_btime] = Now
                   /\ store'[id][s_mtime] = Now]_vars

\* a POST with the id of a document whose seq is "2" by now was refused
C18_Witness ==
    /\ rsp.Msg = "duplicate id"
    /\ s_d1 \in DOMAIN store
    /\ store[s_d1][s_seq] = Str(Seq2)

\* ------------------------------------------- PUT over an imported document
\* the seq of a document that came into the collection by another way: not a
\* number, empty, a number, and a number that is no string
LegacySeqs == {Str(s_x), Str(<<>>), Str(Seq2), Float(20)}

\* a document is loaded into the collection by another way, with the time of
\* the load as its btime, or with none
LoadLegacy(id, seq, born) ==
    /\ id \notin DOMAIN store
    /\ \E doc \in {Put(Put(Put(<<>>, s__id, Str(id)), s_mtime, Now), s_seq, seq)} :
          store' = Put(store, id, IF born THEN Put(doc, s_btime, Now) ELSE doc)
    /\ UNCHANGED <<clock, put, rsp, tally, call, ret, index, es>>

LegacyStep == \E id \in ReqIds, seq \in LegacySeqs, born \in BOOLEAN : LoadLegacy(id, seq, born)

NextLegacy == LegacyStep \/ PutFindStep \/ PutUpsertStep \/ DeleteStep \/ Tick

SpecLegacy == Init /\ [][NextLegacy]_vars

\* the Upsert of a PUT whose Find read a seq that is a string and no number
PutOverBadSeq(r) ==
    /\ PutWrote(r)
    /\ put[r].old # Nil
    /\ Has(put[r].old.v, s_seq)
    /\ nextSeq(put[r].old.v[s_seq].v).err

s_search == <<"s", "e", "a", "r", "c", "h">>
s_regex == <<"r", "e", "g", "e", "x">>

\* a clause of a branch of the or clause: case "filter", "range", "in", "nin",
\* "all" with a map as value, default: unknown
orKey(fs, k, value, condition, rev) ==
    IF k \notin Clauses THEN Failed(s_or, k, "condition unknown", condition)
    ELSE IF value.t # "object" THEN Failed(s_or, k, "type not map", condition)
    ELSE BuildClause(k, fs, value.v, condition, rev)

\* for k, value := range m of a branch of the or clause, r the outcome so far
RECURSIVE orBranchKeys(_, _, _, _, _)
orBranchKeys(fs, keys, m, r, rev) ==
    IF keys = <<>> \/ r.err # Nil THEN r
    ELSE orBranchKeys(fs, Tail(keys), m, orKey(fs, Head(keys), m[Head(keys)], r.cond, rev), rev)

\* orCond = append(orCond, condition), unless the branch b returned an error
orAppend(orCond, b) ==
    [err |-> b.err, cond |-> IF b.err = Nil THEN Append(orCond, Obj(b.cond)) ELSE orCond]

\* for _, obj := range or, r the outcome so far with the list orCond as cond
RECURSIVE orBranches(_, _, _, _, _)
orBranches(fs, or, i, r, rev) ==
    IF i > Len(or) \/ r.err # Nil THEN r
    ELSE IF or[i].t # "object" THEN Failed(s_or, <<>>, "not map", r.cond)
    ELSE orBranches(fs, or, i + 1,
            orAppend(r.cond, orBranchKeys(fs, KeyOrder(DOMAIN or[i].v, rev), or[i].v,
                                          Built(<<>>), rev)), rev)

\* if len(orCond) > 0 { cond["$or"] = orCond }
orSet(cond, r) ==
    IF r.err # Nil THEN [err |-> r.err, cond |-> cond]
    ELSE IF Len(r.cond) > 0 THEN Built(Put(cond, Dollar(s_or), Arr(r.cond)))
    ELSE Built(cond)

BuildOrObj(fs, or, cond, rev) ==
    IF exist(cond, Dollar(s_or)) THEN Failed(s_or, <<>>, "condition conflict", cond)
    ELSE orSet(cond, orBranches(fs, or, 1, Built(<<>>), rev))

\* the $or of BuildRegexSearchObj: a branch for each regex search field
regexBranches(search, regexSearchFields) ==
    [i \in 1..Len(regexSearchFields) |->
        Obj(Put(<<>>, regexSearchFields[i], Obj(Put(<<>>, Dollar(s_regex), Str(search)))))]

\* a BuildRegexSearchObj that joins the $or group it finds
BuildRegexSearchObjJoining(search, regexSearchFields, cond) ==
    IF Len(regexSearchFields) > 0
    THEN Built(Put(cond, Dollar(s_or),
                   Arr((IF Has(cond, Dollar(s_or)) THEN cond[Dollar(s_or)].v ELSE <<>>)
                       \o regexBranches(search, regexSearchFields))))
    ELSE Built(cond)

BuildRegexSearchObj(search, regexSearchFields, cond) ==
    IF exist(cond, Dollar(s_or)) THEN Failed(s_or, <<>>, "condition conflict", cond)
    ELSE IF Len(regexSearchFields) > 0
    THEN Built(Put(cond, Dollar(s_or), Arr(regexBranches(search, regexSearchFields))))
    ELSE Built(cond)

\* the branch {"id": {"$in": ids}}
idsBranch(ids) == Put(<<>>, s_id, Obj(Put(<<>>, Dollar(s_in), Arr(ids))))

\* the search clause of defaultGetPage; ids is what esSearch returns, an array
\* or Nil for its error.  The handler returns when err is not Nil.
SearchObj(search, regexSearchFields, EsEnable, ids, condition) ==
    LET regexSearchByDB == Len(regexSearchFields) > 0
        r == IF regexSearchByDB THEN BuildRegexSearchObj(search, regexSearchFields, condition)
             ELSE Built(condition)
        or == Dollar(s_or)
    IN IF r.err # Nil
       THEN Failed(s_search, <<>>, "build regex search condition error", r.cond)
       ELSE IF EsEnable /\ ids.t = "nil" THEN Failed(s_search, <<>>, "es search error", r.cond)
       ELSE IF EsEnable /\ ~regexSearchByDB
       THEN IF Len(ids.v) = 0 THEN Failed(s_search, <<>>, "no results found", r.cond)
            ELSE IF Has(r.cond, s_id)
            THEN Failed(s_search, <<>>, "search id condition conflict", r.cond)
            ELSE Built(Put(r.cond, s_id, idsBranch(ids.v)[s_id]))
       ELSE IF EsEnable /\ Len(ids.v) > 0 /\ Has(r.cond, or)
       THEN IF r.cond[or].t = "array"
            THEN Built(Put(r.cond, or, Arr(Append(r.cond[or].v, Obj(idsBranch(ids.v))))))
            ELSE Failed(s_search, <<>>, "search condition conflict", r.cond)
       ELSE IF ~regexSearchByDB /\ ~EsEnable
       THEN Failed(s_search, <<>>, "search not config", r.cond)
       ELSE r

OrValues ==
    {<<>>, <<Obj(Put(<<>>, s_filter, Obj(Put(<<>>, s_fs, Str(s_a)))))>>,
     <<Obj(Put(<<>>, s_filter, Obj(Put(<<>>, s_fs, Str(s_a))))),
       Obj(Put(Put(<<>>, s_in, Obj(Put(<<>>, s_fi, Arr(<<Float(10)>>)))),
               s_range, Obj(Put(<<>>, s_fi, Obj(Put(<<>>, s_gt, Float(10)))))))>>,
     <<Obj(Put(<<>>, s_filter, Str(s_a)))>>, <<Obj(Put(<<>>, s_bogus, Obj(<<>>)))>>,
     <<Str(s_a)>>}

\* requests with a search clause, with or without a filter and an or clause
SearchRequests ==
    {Put(q, s_search, s_x) :
        q \in DocsOver(<<s_filter, s_or>>,
                       [clause \in {s_filter, s_or} |->
                           IF clause = s_or THEN OrValues
                           ELSE {Put(<<>>, s_id, Str(s_d1)), Put(<<>>, s_fs, Str(s_a))}])}

\* what the Processor and gCfg say of the search, and what esSearch will return
InitSearch ==
    /\ IdleProtocol
    /\ \E q \in SearchRequests, rev \in BOOLEAN, EsEnable \in BOOLEAN :
       \E regexSearchFields \in {<<>>, <<s_fs>>, <<s_fs, s_fi>>} :
       \E ids \in IF EsEnable THEN {Nil, Arr(<<>>), Arr(<<Str(s_d1)>>)} ELSE {Nil} :
          call = [fn |-> "GetPage", q |-> q, rev |-> rev, EsEnable |-> EsEnable,
                  RegexSearchFields |-> regexSearchFields, ids |-> ids]
    /\ ret = [fn |-> "GetPage", cond |-> <<>>, done |-> {}, err |-> Nil]

\* if query.Get("or") != "" { err = p.FieldSet.BuildOrObj(or, condition) }
CompileOr ==
    /\ call.fn = "GetPage"
    /\ ret.err = Nil
    /\ s_or \in (DOMAIN call.q) \ ret.done
    /\ s_filter \in DOMAIN call.q => s_filter \in ret.done
    /\ \E r \in {BuildOrObj(QueryFS, call.q[s_or], ret.cond, call.rev)} :
          ret' = [fn |-> "GetPage", cond |-> r.cond, done |-> ret.done \cup {s_or},
                  err |-> r.err]
    /\ UNCHANGED <<call, protocolVars, index, es>>

\* if query.Get("search") != "" { ... }, and InReplace(&condition) after it
CompileSearch ==
    /\ call.fn = "GetPage"
    /\ ret.err = Nil
    /\ s_search \in (DOMAIN call.q) \ ret.done
    /\ (DOMAIN call.q) \ ret.done = {s_search}
    /\ \E r \in {SearchObj(call.q[s_search], call.RegexSearchFields, call.EsEnable,
                          call.ids, ret.cond)} :
          ret' = [fn |-> "GetPage", done |-> ret.done \cup {s_search}, err |-> r.err,
                  cond |-> IF r.err = Nil THEN InReplace(r.cond) ELSE r.cond]
    /\ UNCHANGED <<call, protocolVars, index, es>>

NextSearch == CompileFilter \/ CompileOr \/ CompileSearch

SpecSearch == InitSearch /\ [][NextSearch]_vars

\* the branches the or clause of the request compiles to, none without one
OrGroup ==
    IF s_or \in DOMAIN call.q
    THEN orBranches(QueryFS, call.q[s_or], 1, Built(<<>>), call.rev).cond
    ELSE <<>>

\* C20: with regex search fields and the full-text backend both configured, the
\* search clause of every request whose other clauses compiled, one with an or
\* clause included, compiles: the condition holds a $or group of the branches
\* of the or clause, then a branch for each regex search field, then a branch
\* for the ids when the backend returned some.
C20_SearchJoinsOr ==
    (/\ ret.fn = "GetPage"
     /\ s_search \in ret.done
     /\ Len(call.RegexSearchFields) > 0
     /\ call.EsEnable
     /\ call.ids.t = "array")
        => (ret.err # Nil => ret.err.clause # s_search)
           /\ (ret.err = Nil =>
                  ret.cond[Dollar(s_or)] =
                     InReplace(Put(<<>>, Dollar(s_or),
                        Arr(OrGroup \o regexBranches(call.q[s_search], call.RegexSearchFields)
                            \o (IF Len(call.ids.v) > 0 THEN <<Obj(idsBranch(call.ids.v))>>
                                ELSE <<>>))))[Dollar(s_or)])

\* the search clause of a request has been tried, after every other clause of
\* it, with regex search fields and the full-text backend both configured and
\* the backend answering
SearchTried ==
    /\ ret.fn = "GetPage"
    /\ s_search \in DOMAIN call.q
    /\ ret.done = DOMAIN call.q
    /\ Len(call.RegexSearchFields) > 0
    /\ call.EsEnable
    /\ call.ids.t = "array"

\* C20, as the code has it: with regex search fields and the full-text backend
\* both configured, the search clause of a request whose or clause left a $or
\* group in the condition fails with "build regex search condition error" and
\* leaves that group as it was; with no $or group in the condition the regex
\* branches start one, and a branch for the ids is appended to it when the
\* backend returned some.
C20_SearchRejectsOr ==
    SearchTried =>
        IF Len(OrGroup) > 0
        THEN /\ ret.err = Errorf(s_search, <<>>, "build regex search condition error")
             /\ ret.cond[Dollar(s_or)] = Arr(OrGroup)
        ELSE /\ ret.err = Nil
             /\ ret.cond[Dollar(s_or)] =
                   InReplace(Put(<<>>, Dollar(s_or),
                      Arr(regexBranches(call.q[s_search], call.RegexSearchFields)
                          \o (IF Len(call.ids.v) > 0 THEN <<Obj(idsBranch(call.ids.v))>>
                              ELSE <<>>))))[Dollar(s_or)]

\* a search has failed on the $or group of the or clause, the backend having
\* ids to return
C20_Witness ==
    /\ SearchTried
    /\ Len(OrGroup) > 0
    /\ Len(call.ids.v) > 0
    /\ ret.err # Nil
    /\ ret.err.clause = s_search

\* --------------------------------------------------- coercers, on their own
MaxArray == 2    \* length of the arrays handed to ParseKindValue

\* 3.9, -3.9, 1.0 and -0.5 are Float(39), Float(-39), Float(10), Float(-5)
CoerceValues ==
    {Nil, Bool(TRUE), Bool(FALSE), Float(39), Float(0 - 39), Float(10), Float(0 - 5),
     Int64(1), Int64(0 - 2), Uint64(3), Str(<<"t", "r", "u", "e">>), Obj(<<>>)}

CoerceElems == {Nil, Bool(TRUE), Float(39), Float(10), Int64(1), Str(s_a), Obj(<<>>)}

ArrayKinds ==
    {KindArrayBool, KindArrayInt, KindArrayUint, KindArrayFloat, KindArrayString,
     KindArrayObject}

InitCoerce ==
    /\ IdleProtocol
    /\ \/ \E fn \in {"CheckInt", "CheckBool"}, value \in CoerceValues :
             call = [fn |-> fn, value |-> value, kind |-> KindInvalid]
       \/ \E kind \in ArrayKinds, a \in SeqsUpTo(CoerceElems, MaxArray) :
             call = [fn |-> "ParseKindValue", value |-> Arr(a), kind |-> kind]
       \/ \E kind \in ArrayKinds, value \in {Nil, Str(s_a), Obj(<<>>)} :
             call = [fn |-> "ParseKindValue", value |-> value, kind |-> kind]
    /\ ret = NoCall

DoCheckInt ==
    /\ call.fn = "CheckInt"
    /\ ret = NoCall
    /\ ret' = [fn |-> "CheckInt", out |-> CheckInt(call.value)]
    /\ UNCHANGED <<call, protocolVars, index, es>>

DoCheckBool ==
    /\ call.fn = "CheckBool"
    /\ ret = NoCall
    /\ ret' = [fn |-> "CheckBool", out |-> CheckBool(call.value)]
    /\ UNCHANGED <<call, protocolVars, index, es>>

DoParseKindValue ==
    /\ call.fn = "ParseKindValue"
    /\ ret = NoCall
    /\ ret' = [fn |-> "ParseKindValue", out |-> ParseKindValue(call.value, call.kind)]
    /\ UNCHANGED <<call, protocolVars, index, es>>

NextCoerce == DoCheckInt \/ DoCheckBool \/ DoParseKindValue

SpecCoerce == InitCoerce /\ [][NextCoerce]_vars

\* the elements of the array of the call, each through the coercer of the
\* element kind
EachCoerced ==
    [i \in 1..Len(call.value.v) |-> ParseKindValue(call.value.v[i], call.kind - KindArrayBase)]

\* C21: ParseKindValue of an array, for every array kind, fails if an element
\* fails the coercer of the element kind, and returns otherwise an array of the
\* same length with the coerced elements in order.
C21_ArrayWholesale ==
    (ret.fn = "ParseKindValue" /\ call.value.t = "array")
        => ret.out = IF \E i \in 1..Len(call.value.v) : EachCoerced[i] = Nil
                     THEN Nil
                     ELSE Arr(EachCoerced)

\* C22: CheckInt maps a number to the int64 next to it towards zero (3.9 to 3,
\* -3.9 to -3, an integer to itself) and anything else to nil; CheckBool returns
\* a bool as it is and nil for anything else, the string "true" and the number 1
\* included.  Numbers are the ones of CoerceValues, all within int64.
C22_TruncatesAndStrictBool ==
    /\ ret.fn = "CheckInt" =>
          IF call.value.t \in {"int64", "uint64"} THEN ret.out = Int64(call.value.v)
          ELSE IF call.value.t = "float64"
          THEN /\ ret.out.t = "int64"
               /\ IF call.value.v >= 0
                  THEN 10 * ret.out.v <= call.value.v /\ call.value.v < 10 * (ret.out.v + 1)
                  ELSE 10 * ret.out.v >= call.value.v /\ call.value.v > 10 * (ret.out.v - 1)
          ELSE ret.out = Nil
    /\ ret.fn = "CheckBool" =>
          ret.out = IF call.value.t = "bool" THEN call.value ELSE Nil

\* CheckInt has returned 3 for 3.9
C22_Witness ==
    /\ ret.fn = "CheckInt"
    /\ call.value = Float(39)
    /\ ret.out = Int64(3)

\* ------------------------------------------- ensureIndexTask and failures
\* the worker ends the pass of the target it holds
PassEnds == index.idx # Nil /\ index'.idx = Nil

\* C23: the pass of a popped target that is not in the cache ends either with
\* the listing of the indexes failed, and then the cache and the indexes of
\* the store are as before, or with the listing done, and then the target is
\* in the cache until 600 seconds from now, whether or not every missing index
\* was created; either way the pass leaves the queue alone, so the target is
\* not put back.
C23_MarkedIffListed ==
    [][PassEnds =>
          /\ index'.l = index.l
          /\ index'.last.k = KeyOf(index.idx)
          /\ index'.last.out \in {"failed", "ensured"}
          /\ index'.last.out = "failed" =>
                index'.M = index.M /\ index'.db = index.db /\ index'.marked = index.marked
          /\ index'.last.out = "ensured" =>
                /\ index'.M = Put(index.M, KeyOf(index.idx), clock + EnsuredFor)
                /\ indexesInDB(KeyOf(index.idx)) \subseteq index'.db[KeyOf(index.idx)]
                /\ index'.db[KeyOf(index.idx)] \subseteq
                      indexesInDB(KeyOf(index.idx)) \cup
                         {index.idx.Processor.Indexes[i] :
                             i \in 1..Len(index.idx.Processor.Indexes)}]_vars

\* a target is in the cache after a pass in which the creation of its index
\* failed
C23_Witness ==
    /\ index.last.out = "ensured"
    /\ index.last.calls = {"Indexes", "EnsureIndex"}
    /\ Has(index.M, index.last.k)
    /\ index.db[index.last.k] = {}

\* ------------------------------------------------ defaultOnWriteDone
\* the entries of the search backend after the task has run: found is the
\* document its Find returns (PATCH), Nil for none, and ok is whether the call
\* on the backend went through; an error is logged and nothing more
defaultOnWriteDone(docs, task, found, ok, fields) ==
    LET upsertOrRemove(obj) ==
            IF BuildSearchContent(obj, fields) # <<>>
            THEN esUpsert(docs, task.id, BuildSearchContent(obj, fields))
            ELSE esRemove(docs, task.id)
    IN IF task.method \in {"POST", "PUT"}
       THEN IF ok THEN upsertOrRemove(task.data.v) ELSE docs
       ELSE IF task.method = "PATCH"
       THEN IF found = Nil \/ ~ok THEN docs ELSE upsertOrRemove(found.v)
       ELSE IF ok THEN esRemove(docs, task.id) ELSE docs

SyncPutBodies == {B_name, Put(<<>>, s_name, Str(s_b))}

\* gCfg.EsEnable is set
InitSync ==
    /\ store = <<>>
    /\ clock = 1
    /\ put = [r \in 1..MaxPut |-> IdleSlot]
    /\ rsp = genRsp(0, "", Nil)
    /\ tally = [id \in ReqIds |-> NoRun]
    /\ call = NoCall
    /\ ret = NoCall
    /\ index = IndexStart
    /\ es = [EsStart EXCEPT !.EsEnable = TRUE]

SyncPutFindStep ==
    \E r \in 1..MaxPut, id \in ReqIds, body \in SyncPutBodies : PutFind(r, id, body, FALSE)

\* one of the tasks started runs to its end, whichever
RunTask ==
    \E i \in 1..Len(es.tasks) : \E ok \in BOOLEAN :
    \E found \in {IF es.tasks[i].id \in DOMAIN store THEN Obj(store[es.tasks[i].id]) ELSE Nil} :
        /\ es' = [es EXCEPT
                    !.tasks = SubSeq(@, 1, i - 1) \o SubSeq(@, i + 1, Len(@)),
                    !.docs = defaultOnWriteDone(@, es.tasks[i], found, ok,
                                                TheProcessor.SearchFields),
                    !.failed = @ \/ ~ok]
        /\ UNCHANGED <<store, clock, put, rsp, tally, call, ret, index>>

NextSync == SyncPutFindStep \/ PutUpsertStep \/ DeleteStep \/ RunTask

SpecSync == InitSync /\ [][NextSync]_vars

\* the entry the search backend should hold for id, <<>> for none
EntryDue(id) ==
    IF id \in DOMAIN store THEN BuildSearchContent(store[id], TheProcessor.SearchFields)
    ELSE <<>>

\* the entry the search backend holds for id, <<>> for none
EntryHeld(id) == IF Has(es.docs, id) THEN es.docs[id] ELSE <<>>

\* the step is a write the store has taken: a Remove, or the Upsert of a PUT
\* (which may write a document equal to the one stored)
Wrote == store' # store \/ \E r \in 1..MaxPut : put[r].pc = "upsert" /\ put'[r].pc = "idle"

\* C24: a step in which the store takes a write, and no other step, starts one
\* task, after the write: the task is the last of the pending ones, it is of
\* the id written, a DELETE task when the id is gone and otherwise a PUT task
\* that carries the content now stored; and the entries of the search backend
\* change with the run of a task only.  Nothing orders the pending tasks.
C24_OneTaskPerWrite ==
    [][/\ Wrote =>
             /\ Len(es'.tasks) = Len(es.tasks) + 1
             /\ SubSeq(es'.tasks, 1, Len(es.tasks)) = es.tasks
             /\ \E id \in ReqIds :
                   LET t == es'.tasks[Len(es'.tasks)]
                   IN /\ t.id = id
                      /\ \A x \in ReqIds \ {id} :
                            (x \in DOMAIN store) = (x \in DOMAIN store')
                      /\ IF id \in DOMAIN store'
                         THEN /\ t.method = "PUT"
                              /\ BuildSearchContent(t.data.v, TheProcessor.SearchFields)
                                    = BuildSearchContent(store'[id], TheProcessor.SearchFields)
                         ELSE t.method = "DELETE"
       /\ Len(es'.tasks) > Len(es.tasks) => Wrote
       /\ es'.docs # es.docs => Len(es'.tasks) = Len(es.tasks) - 1
      ]_vars

\* two PUTs of one id went through, their tasks have run without an error and
\* none is pending, and the search backend holds the content of the first
C24_Witness ==
    /\ es.tasks = <<>>
    /\ ~es.failed
    /\ \A r \in 1..MaxPut : put[r].pc = "idle"
    /\ s_d1 \in DOMAIN store
    /\ store[s_d1][s_seq] = Str(Seq2)
    /\ EntryDue(s_d1) # <<>>
    /\ EntryHeld(s_d1) # <<>>
    /\ EntryHeld(s_d1) # EntryDue(s_d1)

\* ------------------------------------------------- getIndexEnsureList
MaxCalls == 2    \* calls of getIndexEnsureList a handler makes

\* the goroutines that call getIndexEnsureList: two handlers and the worker
Handlers == {"h1", "h2"}
Goroutines == Handlers \cup {"worker"}

\* Here index holds the variable indexEnsureList (ptr: 0 for nil, or the
\* number of an IndexEnsureList of heap), the IndexEnsureLists made so far, and
\* for the record: pending, the keys a Push has queued and no Pop has returned,
\* and popped, the number of times each key has been returned by a Pop.  call
\* is where each goroutine is in its call of getIndexEnsureList.
InitLazy ==
    /\ store = <<>>
    /\ clock = 1
    /\ put = <<>>
    /\ rsp = genRsp(0, "", Nil)
    /\ tally = [g \in Handlers |-> 0]
    /\ call = [g \in Goroutines |-> [pc |-> "idle"]]
    /\ ret = NoCall
    /\ index = [ptr |-> 0, heap |-> <<>>, pending |-> {}, popped |-> <<>>]
    /\ es = EsStart

\* a handler comes to getIndexEnsureList().Push(idx), the worker to
\* getIndexEnsureList().Pop(): if indexEnsureList == nil
LazyTest ==
    \E g \in Goroutines :
        /\ call[g].pc = "idle"
        /\ g \in Handlers => tally[g] < MaxCalls
        /\ \E idx \in IF g \in Handlers THEN WorkerTargets ELSE {Nil} :
              call' = [call EXCEPT ![g] = [pc |-> IF index.ptr = 0 THEN "new" ELSE "return",
                                           idx |-> idx]]
        /\ tally' = IF g \in Handlers THEN [tally EXCEPT ![g] = @ + 1] ELSE tally
        /\ UNCHANGED <<store, clock, put, rsp, ret, index, es>>

\* indexEnsureList = new(IndexEnsureList).Init()
LazyNew ==
    \E g \in Goroutines :
        /\ call[g].pc = "new"
        /\ index' = [index EXCEPT !.heap = Append(@, IndexEnsureListInit),
                                  !.ptr = Len(index.heap) + 1]
        /\ call' = [call EXCEPT ![g].pc = "return"]
        /\ UNCHANGED <<store, clock, put, rsp, tally, ret, es>>

\* return indexEnsureList
LazyReturn ==
    \E g \in Goroutines :
        /\ call[g].pc = "return"
        /\ call' = [call EXCEPT ![g] = [pc |-> "act", idx |-> call[g].idx, l |-> index.ptr]]
        /\ UNCHANGED <<store, clock, put, rsp, tally, ret, index, es>>

\* Push(idx) on the list the call returned, under its lock
LazyPush ==
    \E g \in Handlers :
        /\ call[g].pc = "act"
        /\ index' = [index EXCEPT
                        !.heap[call[g].l] = Push(@, call[g].idx),
                        !.pending = IF Has(index.heap[call[g].l].indexToEnsureMap,
                                           KeyOf(call[g].idx))
                                    THEN @ ELSE @ \cup {KeyOf(call[g].idx)}]
        /\ call' = [call EXCEPT ![g] = [pc |-> "idle"]]
        /\ UNCHANGED <<store, clock, put, rsp, tally, ret, es>>

\* Pop() on the list the call returned, under its lock
LazyPop ==
    /\ call["worker"].pc = "act"
    /\ \E r \in {Pop(index.heap[call["worker"].l])} :
          index' = [index EXCEPT
                       !.heap[call["worker"].l] = r.l,
                       !.pending = IF r.idx = Nil THEN @ ELSE @ \ {KeyOf(r.idx)},
                       !.popped = IF r.idx = Nil THEN @
                                  ELSE Put(@, KeyOf(r.idx),
                                           IF Has(@, KeyOf(r.idx)) THEN @[KeyOf(r.idx)] + 1
                                           ELSE 1)]
    /\ call' = [call EXCEPT !["worker"] = [pc |-> "idle"]]
    /\ UNCHANGED <<store, clock, put, rsp, tally, ret, es>>

NextLazy == LazyTest \/ LazyNew \/ LazyReturn \/ LazyPush \/ LazyPop

SpecLazy == InitLazy /\ [][NextLazy]_vars

\* the keys in the list of the IndexEnsureList number i
KeysOf(i) ==
    {index.heap[i].indexToEnsureList[j] : j \in 1..Len(index.heap[i].indexToEnsureList)}

\* C25: there is one pending queue: no more than one IndexEnsureList is ever
\* made, and every key a Push has queued and no Pop has returned yet is in the
\* list of the IndexEnsureList that indexEnsureList designates, where the Pops
\* to come will find it.
C25_NoEnqueueLost ==
    /\ Len(index.heap) <= 1
    /\ \A k \in index.pending : index.ptr # 0 /\ k \in KeysOf(index.ptr)

\* ------------------------------------------------------ PATCH and btime
\* TheProcessor without CreateOnly and ReadOnly fields
PlainProcessor == [TheProcessor EXCEPT !.CreateOnlyFields = <<>>, !.ReadOnlyFields = <<>>]

PlainFS == ProcessorInit(PlainProcessor).FieldSet

B_btime == Put(<<>>, s_btime, Float(20))

BirthPatchBodies == {B_name, B_btime, Put(B_name, s_btime, Float(0))}

BirthPostStep ==
    \E body \in PostBodies, gen \in ReqIds : \E rev \in Orders(body) :
        PostBy(PlainFS, body, gen, rev)

BirthPatchStep ==
    \E id \in ReqIds, seq \in Seqs, ignoreSeq \in BOOLEAN, body \in BirthPatchBodies :
        \E rev \in Orders(body) : PatchBy(PlainFS, id, seq, ignoreSeq, body, rev)

NextBirth == BirthPostStep \/ BirthPatchStep \/ Tick

SpecBirth == Init /\ [][NextBirth]_vars

\* the step is a PATCH that was answered 200
Patched == rsp'.Msg = "patch ok" /\ store' # store

\* C26: with no CreateOnly and no ReadOnly field in the schema, a PATCH that
\* is answered 200, versioned or not and whatever its body, leaves the btime of
\* every document as it was and writes the time of the request as mtime.
C26_PatchKeepsBtime ==
    [][Patched =>
          \A id \in DOMAIN store :
              /\ id \in DOMAIN store'
              /\ store'[id][s_btime] = store[id][s_btime]
              /\ store'[id] # store[id] => store'[id][s_mtime] = Now]_vars


\* ------------------------------------------------------ policies by prefix
MaxFields == 2

s_names == <<"n", "a", "m", "e", "s">>
s_info_city == <<"i", "n", "f", "o", ".", "c", "i", "t", "y">>

\* a data structure with a field whose name begins with the name of another
FlagDoc ==
    StructOf(<<StructField(Omit(s_id), PtrTo(TypeOf(reflect_String))),
               StructField(Omit(s_name), PtrTo(TypeOf(reflect_String))),
               StructField(Omit(s_names), PtrTo(TypeOf(reflect_String))),
               StructField(Omit(s_info), PtrTo(Info))>>)

FlagFS == BuildFieldSet(PtrTo(FlagDoc))

FlagFields == SeqsUpTo({s_id, s_name, s_names, s_info, s_info_city, s_bogus}, MaxFields)

InitFlags ==
    /\ IdleProtocol
    /\ \E fields \in FlagFields : call = [fn |-> "SetFields", fields |-> fields]
    /\ ret = NoCall

\* fs.SetCreateOnlyFields(fields)
DoSetCreateOnlyFields ==
    /\ call.fn = "SetFields"
    /\ ret = NoCall
    /\ ret' = [fn |-> "SetCreateOnlyFields", fs |-> SetCreateOnlyFields(FlagFS, call.fields)]
    /\ UNCHANGED <<store, clock, put, rsp, tally, call, index, es>>

\* fs.SetReadOnlyFields(fields)
DoSetReadOnlyFields ==
    /\ call.fn = "SetFields"
    /\ ret = NoCall
    /\ ret' = [fn |-> "SetReadOnlyFields", fs |-> SetReadOnlyFields(FlagFS, call.fields)]
    /\ UNCHANGED <<store, clock, put, rsp, tally, call, index, es>>

NextFlags == DoSetCreateOnlyFields \/ DoSetReadOnlyFields

SpecFlags == InitFlags /\ [][NextFlags]_vars

\* the path k is the field f or lies beneath it
Beneath(k, f) == k = f \/ HasPrefix(k, f \o <<".">>)

Listed(k) == \E i \in 1..Len(call.fields) : Beneath(k, call.fields[i])

\* C27: SetCreateOnlyFields and SetReadOnlyFields set their flag on exactly the
\* paths of the FieldSet that equal a member of the field list or lie beneath
\* one (the member followed by '.'), and on no other path: 'names' is not
\* flagged by the member 'name'.
C27_FlagsByPath ==
    /\ ret.fn = "SetCreateOnlyFields" =>
          \A k \in DOMAIN ret.fs.FMap : ret.fs.FMap[k].CreateOnly = Listed(k)
    /\ ret.fn = "SetReadOnlyFields" =>
          \A k \in DOMAIN ret.fs.FMap : ret.fs.FMap[k].ReadOnly = Listed(k)


\* ------------------------------------------------------ refused requests
B_bogus == Put(<<>>, s_bogus, Float(10))

GuardPostBodies == {B_name, B_ro}
GuardPutBodies == {B_name, B_bogus}
GuardPatchBodies == {B_name, B_bogus}

\* gCfg.EsEnable is set and the processor declares an index
InitGuard ==
    /\ store = <<>>
    /\ clock = 1
    /\ put = [r \in 1..MaxPut |-> IdleSlot]
    /\ rsp = genRsp(0, "", Nil)
    /\ tally = [id \in ReqIds |-> NoRun]
    /\ call = NoCall
    /\ ret = NoCall
    /\ index = [IndexStart EXCEPT !.Indexes = IndexedProcessor.Indexes]
    /\ es = [EsStart EXCEPT !.EsEnable = TRUE]

GuardPostStep ==
    \E body \in GuardPostBodies, gen \in ReqIds : \E rev \in Orders(body) : Post(body, gen, rev)

GuardPutFindStep ==
    \E r \in 1..MaxPut, id \in ReqIds, body \in GuardPutBodies, rev \in BOOLEAN :
        PutFind(r, id, body, rev)

GuardPatchStep ==
    \E id \in ReqIds, seq \in Seqs, ignoreSeq \in BOOLEAN, body \in GuardPatchBodies :
        \E rev \in Orders(body) : Patch(id, seq, ignoreSeq, body, rev)

NextGuard == GuardPostStep \/ GuardPutFindStep \/ PutUpsertStep \/ GuardPatchStep \/ RunTask

SpecGuard == InitGuard /\ [][NextGuard]_vars

\* the step is a POST, PUT or PATCH whose body CheckObject has refused
Refused == rsp' # rsp /\ rsp'.Msg = "invalid fields"

\* C28: a POST, PUT or PATCH whose body CheckObject refuses is answered 400
\* and does nothing else: the store is as it was, no PUT has gone on to its
\* Find, no OnWriteDone task is started and no index target is pushed.
C28_RefusedHasNoEffect ==
    [][Refused =>
          /\ rsp'.Code = 400
          /\ rsp'.Data = Nil
          /\ UNCHANGED <<store, put, tally, es, index>>]_vars

\* a refused request after a write that started a task and pushed a target
C28_Witness ==
    /\ rsp.Msg = "invalid fields"
    /\ store # <<>>
    /\ Len(es.tasks) > 0
    /\ index.l.indexToEnsureList # <<>>


\* ------------------------------------------------------------ package Init
MaxProcessors == 2

\* p.URLPath after Processor.Init, when none was given
URLPath(p) == <<"/">> \o p.Biz

\* Processor.Load: the routes on gCfg.Mux after the seven calls of Register
Load(routes, p) ==
    routes \o <<[method |-> "POST", pattern |-> URLPath(p)],
                [method |-> "PUT", pattern |-> URLPath(p) \o <<"/{id}">>],
                [method |-> "PATCH", pattern |-> URLPath(p) \o <<"/{id}">>],
                [method |-> "GET", pattern |-> URLPath(p) \o <<"/{id}">>],
                [method |-> "GET", pattern |-> URLPath(p)],
                [method |-> "DELETE", pattern |-> URLPath(p) \o <<"/{id}">>],
                [method |-> "POST", pattern |-> URLPath(p) \o <<"/__trigger">>]>>

\* the loop of Init over the processors from the i-th on: the error returned,
\* the routes registered and whether `go ensureIndexTask()` was reached
RECURSIVE initLoop(_, _, _, _)
initLoop(processors, i, bizMap, routes) ==
    IF i > Len(processors) THEN [err |-> "", routes |-> routes, worker |-> TRUE]
    ELSE IF processors[i].Biz \in bizMap
    THEN [err |-> "biz conflict", routes |-> routes, worker |-> FALSE]
    ELSE IF ProcessorInit(processors[i]).err # ""
    THEN [err |-> ProcessorInit(processors[i]).err, routes |-> routes, worker |-> FALSE]
    ELSE initLoop(processors, i + 1, bizMap \cup {processors[i].Biz},
                  Load(routes, processors[i]))

\* Init(cfg, processors); cfg.ok: cfg, cfg.Mux and cfg.MgoSess are not nil;
\* cfg.esOk: initEsParam returns no error
PackageInit(cfg, processors) ==
    IF ~cfg.ok THEN [err |-> "cfg param invalid", routes |-> <<>>, worker |-> FALSE]
    ELSE IF Len(processors) = 0
    THEN [err |-> "processors param invalid", routes |-> <<>>, worker |-> FALSE]
    ELSE IF cfg.EsEnable /\ ~cfg.esOk
    THEN [err |-> "es", routes |-> <<>>, worker |-> FALSE]
    ELSE initLoop(processors, 1, {}, <<>>)

NoSeqDoc ==
    StructOf(<<StructField(Omit(s_id), PtrTo(TypeOf(reflect_String))),
               StructField(Omit(s_btime), PtrTo(TypeOf(reflect_Int64))),
               StructField(Omit(s_mtime), PtrTo(TypeOf(reflect_Int64)))>>)

\* two processors that pass Processor.Init, and one each with no biz, with no
\* seq in its data structure, with a search field that is no string and with
\* an index on a field the data structure does not have
SetupProcessors ==
    {[TheProcessor EXCEPT !.Biz = s_a],
     [TheProcessor EXCEPT !.Biz = s_b],
     [TheProcessor EXCEPT !.Biz = <<>>],
     [TheProcessor EXCEPT !.Biz = s_c, !.DataStruct = PtrTo(NoSeqDoc),
                          !.SearchFields = <<>>],
     [TheProcessor EXCEPT !.Biz = s_c, !.SearchFields = <<s_year>>],
     [TheProcessor EXCEPT !.Biz = s_c,
                          !.Indexes = <<[Key |-> <<s_bogus>>, Unique |-> FALSE]>>]}

Configs == [ok : BOOLEAN, EsEnable : BOOLEAN, esOk : BOOLEAN]

InitSetup ==
    /\ IdleProtocol
    /\ \E cfg \in Configs, processors \in SeqsUpTo(SetupProcessors, MaxProcessors) :
          call = [fn |-> "PackageInit", cfg |-> cfg, processors |-> processors]
    /\ ret = NoCall

\* err := restful.Init(&cfg, &processors)
DoPackageInit ==
    /\ call.fn = "PackageInit"
    /\ ret = NoCall
    /\ ret' = [fn |-> "PackageInit"] @@ PackageInit(call.cfg, call.processors)
    /\ UNCHANGED <<call, protocolVars, index, es>>

NextSetup == DoPackageInit

SpecSetup == InitSetup /\ [][NextSetup]_vars

\* C29: Init is all-or-nothing: when it returns an error, whichever processor
\* of the list it is for, no route of any processor has been registered on the
\* router and the index worker has not been started.
C29_InitAllOrNothing ==
    (ret.fn = "PackageInit" /\ ret.err # "") => (ret.routes = <<>> /\ ~ret.worker)


\* ------------------------------------------------------------ seq, alone
MaxSeqLen == 3
MaxGen == 12

\* the seq strings handed to nextSeq: signs, digits and a letter, in any order
SeqStrings == SeqsUpTo({"-", "+", "0", "1", "9", "x"}, MaxSeqLen)

InitSeq ==
    /\ IdleProtocol
    /\ \/ \E seq \in SeqStrings : call = [fn |-> "nextSeq", seq |-> seq]
       \/ \E n \in (0 - MaxGen)..MaxGen : call = [fn |-> "genSeq", n |-> n]
    /\ ret = NoCall

\* seq, err := nextSeq(seq)
DoNextSeq ==
    /\ call.fn = "nextSeq"
    /\ ret = NoCall
    /\ ret' = [fn |-> "nextSeq"] @@ nextSeq(call.seq)
    /\ UNCHANGED <<call, protocolVars, index, es>>

\* seq := genSeq(n)
DoGenSeq ==
    /\ call.fn = "genSeq"
    /\ ret = NoCall
    /\ ret' = [fn |-> "genSeq", seq |-> genSeq(call.n)]
    /\ UNCHANGED <<call, protocolVars, index, es>>

NextSeq == DoNextSeq \/ DoGenSeq

SpecSeq == InitSeq /\ [][NextSeq]_vars

\* C30: genSeq(0) is "1"; for every string that parses as a decimal integer n
\* nextSeq returns the decimal string of n + 1, which is never the input nor
\* smaller than it; for every other string it returns an error.
C30_NextSeqAddsOne ==
    /\ (ret.fn = "genSeq" /\ call.n = 0) => ret.seq = <<"1">>
    /\ ret.fn = "nextSeq" =>
          IF ParseInt(call.seq).err THEN ret.err
          ELSE /\ ~ret.err
               /\ ret.seq = FormatInt(ParseInt(call.seq).n + 1)
               /\ ret.seq # call.seq
               /\ ParseInt(ret.seq).n > ParseInt(call.seq).n

====
